---- MODULE Spec2Model ----
(***************************************************************************)
(* Chain synchronisation of the node: the block applier thread of          *)
(* shell/src/chain_feeder.rs and the ChainManager actor of                 *)
(* shell/src/chain_manager.rs, over the shared header, meta and operations *)
(* stores.                                                                 *)
(***************************************************************************)
EXTENDS Integers, Sequences, FiniteSets, TLC

(***************************************************************************)
(* The block universe: a small predecessor tree.  H1 carries fitness 30    *)
(* and has the two children H2A (fitness 40) and H2B (fitness 50), at the  *)
(* same level; H3A extends H2A to a higher level with a fitness below      *)
(* H2B's.                                                                  *)
(***************************************************************************)
None == "none"

Genesis == "G"

Blocks == {"G", "H1", "H2A", "H2B", "H3A"}

predecessor(b) ==
    CASE b = "H1" -> "G"
      [] b = "H2A" -> "H1"
      [] b = "H2B" -> "H1"
      [] b = "H3A" -> "H2A"
      [] OTHER -> "G"

level(b) ==
    CASE b = "G" -> 0
      [] b = "H1" -> 1
      [] b = "H2A" -> 2
      [] b = "H2B" -> 2
      [] b = "H3A" -> 3

fitness(b) ==
    CASE b = "G" -> 0
      [] b = "H1" -> 30
      [] b = "H2A" -> 40
      [] b = "H2B" -> 50
      [] b = "H3A" -> 45

Peers == {"p1", "p2"}

\* The branch each peer follows: a peer advertises and supplies blocks of its
\* own branch only.
PeerBlocks == [p \in Peers |-> IF p = "p1" THEN {"H1", "H2A", "H3A"} ELSE {"H1", "H2B"}]

\* A peer that knows the first two blocks of one fork.
NearBlocks == [p \in Peers |-> {"H1", "H2A"}]

\* The validation passes of a block (its header's validation_pass): an
\* OperationsForBlocks bundle completes one of them.
ValidationPasses == {0, 1}

validation_passes(b) == IF b \in {"G", "H1"} THEN {0, 1} ELSE {0}

\* BlockchainState::get_chain_id: the chain the node follows.
get_chain_id == "chain"

\* The metadata a peer hands over when it connects: p2 has its mempool
\* disabled.
peer_metadata == [p \in Peers |-> [disable_mempool |-> p = "p2"]]

\* PeerState.mempool_enabled
mempool_enabled(p) == ~peer_metadata[p].disable_mempool

\* The mempools of a CurrentHead message, by the operation hashes they name.
Mempools == {{}, {"op"}}

\* The configurations of a node.
Configs == [p2p_disable_mempool : BOOLEAN, is_sandbox : BOOLEAN]

\* Bounds of the model.
MaxErrors == 1

VARIABLES
    block_storage,          \* hashes whose header is stored
    block_meta_storage,     \* hash -> meta record, or NoMeta
    apply_block_run,        \* ChainFeeder.block_applier_run
    park_token,             \* the applier thread's unpark token
    f_pc,                   \* position of the applier thread
    tezos_init_head,        \* tezos_init.current_block_header_hash
    current_head_hash,      \* the cursor of feed_chain_to_protocol
    current_head_meta,      \* the meta record the applier thread holds
    apply_log,              \* sequence of <<hash, outcome>> of apply_block
    block_applied_events,   \* BlockApplied hashes, in publication order
    errors,                 \* failures injected so far
    peers,                  \* keys of ChainManager.peers
    queued_block_headers,   \* peer -> header hashes requested from it
    queued_block_operations,\* peer -> blocks whose operations are requested from it
    operations_received,    \* hash -> validation passes stored
    current_head_local,     \* CurrentHead.local
    current_head_remote,    \* CurrentHead.remote
    bootstrap_state,        \* SynchronizationBootstrapState
    cm_pc,                  \* position of the ChainManager actor
    cm_msg,                 \* the message the ChainManager is handling
    cm_out,                 \* <<peer, message, hash>> told or published by
                            \* the ChainManager while handling its latest message;
                            \* a CurrentHead carries its mempool as well
    block_received_events,  \* hash -> number of BlockReceived published
    config,                 \* ChainManager.p2p_disable_mempool and .is_sandbox
    current_mempool_state,  \* the shared CurrentMempoolStateStorage
    now,                    \* Instant::now(), in seconds since pre_start
    peer_state,             \* the timers, level and mempool queue of the
                            \* PeerState of one connected peer
    peer_branch_bootstrapper,\* peer -> whether its PeerState refers to a
                            \* PeerBranchBootstrapper actor
    post_stop_pc,           \* position of ChainFeeder::post_stop
    missing_mempool_operations,\* peer -> the mempool operations its
                            \* PeerState is to fetch from it
    queued_mempool_operations, \* peer -> the mempool operations requested
                            \* from it
    mempool_storage,        \* hashes of the operations in the MempoolStorage
    shutting_down,          \* ChainManager.shutting_down
    shell_automaton         \* the state of the shell automaton's store: its
                            \* current_head, its storage requests, the
                            \* dispatches under way, what it has sent

feederVars == <<apply_block_run, park_token, f_pc, tezos_init_head,
                current_head_hash, current_head_meta, apply_log,
                block_applied_events, errors>>

cmFields == <<peers, queued_block_headers, queued_block_operations,
              current_head_remote, bootstrap_state, cm_pc, cm_msg,
              block_received_events, config, current_mempool_state,
              now, peer_state, peer_branch_bootstrapper,
              missing_mempool_operations, queued_mempool_operations,
              mempool_storage, shutting_down>>

\* What the applier thread leaves alone, but for the local head slot and the
\* outputs of the ChainManager.
cmState == <<cmFields, post_stop_pc, shell_automaton>>

cmVars == <<peers, queued_block_headers, queued_block_operations,
            current_head_remote, bootstrap_state, cm_pc, cm_msg, cm_out,
            block_received_events>>

vars == <<block_storage, block_meta_storage, operations_received,
          apply_block_run, park_token, f_pc, tezos_init_head,
          current_head_hash, current_head_meta, apply_log,
          block_applied_events, errors, current_head_local, cmVars,
          config, current_mempool_state, now, peer_state,
          peer_branch_bootstrapper, post_stop_pc,
          missing_mempool_operations,
          queued_mempool_operations, mempool_storage, shutting_down,
          shell_automaton>>

\* The applier thread without the completeness check.
is_complete_unchecked(b) == TRUE

\* operations_meta_storage.is_complete
is_complete(b) == operations_received[b] = validation_passes(b)

\* A meta record; NoMeta stands for a key the meta store does not hold.
Meta(applied, succ) == [present |-> TRUE, is_applied |-> applied, successor |-> succ]

NoMeta == [present |-> FALSE, is_applied |-> FALSE, successor |-> None]

NoMsg == [kind |-> "none", peer |-> None, head |-> None, need |-> FALSE,
          mempool |-> {}]

\* The chain persisted by earlier runs: genesis alone, or genesis and its
\* first applied descendant.  The applier thread starts at its last block.
PersistedChains == {<<"G">>, <<"G", "H1">>}

Range(s) == {s[i] : i \in DOMAIN s}

InitStores(chain) ==
    /\ block_storage = Range(chain)
    /\ block_meta_storage =
           [b \in Blocks |->
              IF \E i \in DOMAIN chain : chain[i] = b
                THEN LET i == CHOOSE k \in DOMAIN chain : chain[k] = b
                     IN Meta(TRUE, IF i < Len(chain) THEN chain[i + 1] ELSE None)
                ELSE NoMeta]
    /\ operations_received =
           [b \in Blocks |-> IF b \in Range(chain) THEN validation_passes(b) ELSE {}]
    /\ current_head_local = chain[Len(chain)]
    /\ tezos_init_head = chain[Len(chain)]
    /\ block_applied_events = Tail(chain)

InitFeeder ==
    /\ apply_block_run = TRUE
    /\ park_token = FALSE
    /\ f_pc = "actor"
    /\ current_head_hash = tezos_init_head
    /\ current_head_meta = NoMeta
    /\ apply_log = <<>>
    /\ errors = 0
    /\ post_stop_pc = "none"

\* The local head slot after the commit of block b.
SetLocalHead(b) == b

(***************************************************************************)
(* The block applier thread.                                               *)
(***************************************************************************)

\* while apply_block_run.load(..) { feed_chain_to_protocol(..) } ; Ok(())
FeederActorLoop ==
    /\ f_pc = "actor"
    /\ IF apply_block_run
         THEN /\ current_head_hash' = tezos_init_head
              /\ f_pc' = "loop"
         ELSE /\ f_pc' = "exited"
              /\ UNCHANGED current_head_hash
    /\ current_head_meta' = NoMeta
    /\ UNCHANGED <<block_storage, block_meta_storage, operations_received,
                   apply_block_run, park_token, tezos_init_head, apply_log,
                   block_applied_events, errors>>
    /\ cm_out' = {}
    /\ UNCHANGED <<current_head_local, cmState>>

\* The match with the successor followed before the applied flag is looked at.
feed_step_successor_first(meta) ==
    IF ~meta.present
      THEN "park"
      ELSE IF meta.successor # None
             THEN "successor"
             ELSE IF meta.is_applied THEN "park" ELSE "get_block"

\* The match without the applied flag.
feed_step_applied_ignored(meta) ==
    IF ~meta.present THEN "park" ELSE "get_block"

\* The match on the meta record of the cursor: where the thread goes next.
feed_step(meta) ==
    IF ~meta.present
      THEN "park"
      ELSE IF meta.is_applied
             THEN IF meta.successor # None THEN "successor" ELSE "park"
             ELSE "get_block"

\* The head of the inner loop: the run flag, then block_meta_storage.get.
FeederLoadMeta ==
    /\ f_pc = "loop"
    /\ IF ~apply_block_run
         THEN /\ f_pc' = "actor"
              /\ UNCHANGED <<current_head_hash, current_head_meta>>
         ELSE LET meta == block_meta_storage[current_head_hash] IN
              /\ current_head_meta' = meta
              /\ IF feed_step(meta) = "successor"
                   THEN /\ current_head_hash' = meta.successor
                        /\ f_pc' = "loop"
                   ELSE /\ f_pc' = feed_step(meta)
                        /\ UNCHANGED current_head_hash
    /\ UNCHANGED <<block_storage, block_meta_storage, operations_received,
                   apply_block_run, park_token, tezos_init_head, apply_log,
                   block_applied_events, errors>>
    /\ cm_out' = {}
    /\ UNCHANGED <<current_head_local, cmState>>

\* A step after block_storage.get that goes on to the operations whether the
\* header was found or not.
FeederGetBlockUnchecked ==
    /\ f_pc = "get_block"
    /\ f_pc' = "is_complete"
    /\ UNCHANGED <<block_storage, block_meta_storage, operations_received,
                   apply_block_run, park_token, tezos_init_head,
                   current_head_hash, current_head_meta, apply_log,
                   block_applied_events, errors>>
    /\ cm_out' = {}
    /\ UNCHANGED <<current_head_local, cmState>>

\* block_storage.get(&current_head_hash): None is "data was not yet written
\* do the storage, so don't panic!", and the thread parks.
FeederGetBlock ==
    /\ f_pc = "get_block"
    /\ f_pc' = IF current_head_hash \in block_storage THEN "is_complete" ELSE "park"
    /\ UNCHANGED <<block_storage, block_meta_storage, operations_received,
                   apply_block_run, park_token, tezos_init_head,
                   current_head_hash, current_head_meta, apply_log,
                   block_applied_events, errors>>
    /\ cm_out' = {}
    /\ UNCHANGED <<current_head_local, cmState>>

\* operations_meta_storage.is_complete, and the call of apply_block when it is.
FeederIsComplete ==
    /\ f_pc = "is_complete"
    /\ f_pc' = IF is_complete(current_head_hash) THEN "apply" ELSE "park"
    /\ UNCHANGED <<block_storage, block_meta_storage, operations_received,
                   apply_block_run, park_token, tezos_init_head,
                   current_head_hash, current_head_meta, apply_log,
                   block_applied_events, errors>>
    /\ cm_out' = {}
    /\ UNCHANGED <<current_head_local, cmState>>

\* protocol_wrapper_ipc.apply_block(..) returns Ok.
FeederApplyOk ==
    /\ f_pc = "apply"
    /\ apply_log' = Append(apply_log, <<current_head_hash, "ok">>)
    /\ f_pc' = "put"
    /\ UNCHANGED <<block_storage, block_meta_storage, operations_received,
                   apply_block_run, park_token, tezos_init_head,
                   current_head_hash, current_head_meta,
                   block_applied_events, errors>>
    /\ cm_out' = {}
    /\ UNCHANGED <<current_head_local, cmState>>

\* An apply_block whose Err is not propagated: the thread goes on to the put.
FeederApplyErrSwallowed ==
    /\ f_pc = "apply"
    /\ errors < MaxErrors
    /\ errors' = errors + 1
    /\ apply_log' = Append(apply_log, <<current_head_hash, "err">>)
    /\ f_pc' = "put"
    /\ UNCHANGED <<block_storage, block_meta_storage, operations_received,
                   apply_block_run, park_token, tezos_init_head,
                   current_head_hash, current_head_meta,
                   block_applied_events>>
    /\ cm_out' = {}
    /\ UNCHANGED <<current_head_local, cmState>>

\* protocol_wrapper_ipc.apply_block(..)? returns Err: feed_chain_to_protocol
\* returns the error, the actor loop logs it and calls it again.
FeederApplyErr ==
    /\ f_pc = "apply"
    /\ errors < MaxErrors
    /\ errors' = errors + 1
    /\ apply_log' = Append(apply_log, <<current_head_hash, "err">>)
    /\ f_pc' = "actor"
    /\ UNCHANGED <<block_storage, block_meta_storage, operations_received,
                   apply_block_run, park_token, tezos_init_head,
                   current_head_hash, current_head_meta,
                   block_applied_events>>
    /\ cm_out' = {}
    /\ UNCHANGED <<current_head_local, cmState>>

\* A storage call of the inner loop returns Err (the ? of get, is_complete,
\* get_operations and put): feed_chain_to_protocol returns the error, the
\* actor loop logs it and calls it again.
FeederStorageErr ==
    /\ f_pc \in {"loop", "get_block", "is_complete", "put"}
    /\ apply_block_run
    /\ errors < MaxErrors
    /\ errors' = errors + 1
    /\ f_pc' = "actor"
    /\ UNCHANGED <<block_storage, block_meta_storage, operations_received,
                   apply_block_run, park_token, tezos_init_head,
                   current_head_hash, current_head_meta, apply_log,
                   block_applied_events>>
    /\ cm_out' = {}
    /\ UNCHANGED <<current_head_local, cmState>>

\* current_head_meta.is_applied = true; block_meta_storage.put(hash, &current_head_meta)
FeederPutMeta ==
    /\ f_pc = "put"
    /\ current_head_meta' = [current_head_meta EXCEPT !.is_applied = TRUE]
    /\ block_meta_storage' =
           [block_meta_storage EXCEPT ![current_head_hash] = current_head_meta']
    /\ current_head_local' = SetLocalHead(current_head_hash)
    /\ f_pc' = "publish"
    /\ UNCHANGED <<block_storage, operations_received, apply_block_run,
                   park_token, tezos_init_head, current_head_hash, apply_log,
                   block_applied_events, errors>>
    /\ cm_out' = {}
    /\ UNCHANGED cmState

\* shell_channel.tell(BlockApplied {..}), then the move to the successor of
\* the record the thread holds.
FeederPublish ==
    /\ f_pc = "publish"
    /\ block_applied_events' = Append(block_applied_events, current_head_hash)
    /\ IF current_head_meta.successor # None
         THEN /\ current_head_hash' = current_head_meta.successor
              /\ f_pc' = "loop"
         ELSE /\ f_pc' = "park"
              /\ UNCHANGED current_head_hash
    /\ UNCHANGED <<block_storage, block_meta_storage, operations_received,
                   apply_block_run, park_token, tezos_init_head,
                   current_head_meta, apply_log, errors>>
    /\ cm_out' = {}
    /\ UNCHANGED <<current_head_local, cmState>>

\* thread::park() may return spuriously, with no unpark and no token consumed.
FeederParkSpurious ==
    /\ f_pc = "park"
    /\ f_pc' = "loop"
    /\ UNCHANGED <<block_storage, block_meta_storage, operations_received,
                   apply_block_run, park_token, tezos_init_head,
                   current_head_hash, current_head_meta, apply_log,
                   block_applied_events, errors>>
    /\ cm_out' = {}
    /\ UNCHANGED <<current_head_local, cmState>>

\* A park that consumes the unpark token and goes on waiting.
FeederParkTokenLost ==
    /\ f_pc = "park"
    /\ park_token
    /\ park_token' = FALSE
    /\ f_pc' = "park"
    /\ UNCHANGED <<block_storage, block_meta_storage, operations_received,
                   apply_block_run, tezos_init_head, current_head_hash,
                   current_head_meta, apply_log, block_applied_events, errors>>
    /\ cm_out' = {}
    /\ UNCHANGED <<current_head_local, cmState>>

\* thread::park(): returns once the unpark token is set, and consumes it.
FeederPark ==
    /\ f_pc = "park"
    /\ park_token
    /\ park_token' = FALSE
    /\ f_pc' = "loop"
    /\ UNCHANGED <<block_storage, block_meta_storage, operations_received,
                   apply_block_run, tezos_init_head, current_head_hash,
                   current_head_meta, apply_log, block_applied_events, errors>>
    /\ cm_out' = {}
    /\ UNCHANGED <<current_head_local, cmState>>

(***************************************************************************)
(* The ChainFeeder actor.                                                  *)
(***************************************************************************)

\* Receive<FeedChainToProtocol>: unpark the applier thread.  The actor
\* handles no message once post_stop has run.
ReceiveFeedChainToProtocol ==
    /\ post_stop_pc = "none"
    /\ ~park_token
    /\ park_token' = TRUE
    /\ UNCHANGED <<block_storage, block_meta_storage, operations_received,
                   apply_block_run, f_pc, tezos_init_head, current_head_hash,
                   current_head_meta, apply_log, block_applied_events, errors>>
    /\ cm_out' = {}
    /\ UNCHANGED <<current_head_local, cmState>>

\* What post_stop leaves alone.
notPostStop == <<block_storage, block_meta_storage, operations_received,
                 f_pc, tezos_init_head, current_head_hash, current_head_meta,
                 apply_log, block_applied_events, errors, current_head_local,
                 cmFields, cm_out, shell_automaton>>

\* post_stop: self.block_applier_run.store(false, Ordering::Release)
PostStop ==
    /\ post_stop_pc = "none"
    /\ apply_block_run' = FALSE
    /\ post_stop_pc' = "unpark"
    /\ UNCHANGED <<park_token, notPostStop>>

\* A post_stop that leaves the applier thread parked.
PostStopNoUnpark ==
    /\ post_stop_pc = "unpark"
    /\ post_stop_pc' = "join"
    /\ UNCHANGED <<apply_block_run, park_token, notPostStop>>

\* post_stop: join_handle.thread().unpark()
PostStopUnpark ==
    /\ post_stop_pc = "unpark"
    /\ park_token' = TRUE
    /\ post_stop_pc' = "join"
    /\ UNCHANGED <<apply_block_run, notPostStop>>

\* post_stop: join_handle.join() returns once the applier thread has exited.
PostStopJoin ==
    /\ post_stop_pc = "join"
    /\ f_pc = "exited"
    /\ post_stop_pc' = "done"
    /\ UNCHANGED <<apply_block_run, park_token, notPostStop>>

(***************************************************************************)
(* The ChainManager actor.  It handles one message at a time; cm_pc is     *)
(* "idle" between messages.                                                *)
(***************************************************************************)

\* Minimum number of distinct synchronized peers, and the level distance to
\* the best remote head, for the node to count as bootstrapped.
bootstrap_threshold_peers == 2

bootstrap_level_threshold == 1

InitChainManager ==
    /\ peers = {}
    /\ queued_block_headers = [p \in Peers |-> {}]
    /\ queued_block_operations = [p \in Peers |-> {}]
    /\ current_head_remote = None
    /\ bootstrap_state = [done |-> {}, level_ok |-> FALSE]
    /\ cm_pc = "idle"
    /\ cm_msg = NoMsg
    /\ cm_out = {}
    /\ block_received_events = [b \in Blocks |-> 0]
    /\ peer_branch_bootstrapper = [p \in Peers |-> FALSE]
    /\ missing_mempool_operations = [p \in Peers |-> {}]
    /\ queued_mempool_operations = [p \in Peers |-> {}]
    /\ mempool_storage = {}
    /\ shutting_down = FALSE

\* SynchronizationBootstrapState::is_bootstrapped
is_bootstrapped ==
    /\ Cardinality(bootstrap_state.done) >= bootstrap_threshold_peers
    /\ bootstrap_state.level_ok

\* SynchronizationBootstrapState::update_by_peer_state
update_by_peer_state(p, remote_best_known_level, chain_manager_current_level) ==
    [done |-> bootstrap_state.done \cup {p},
     level_ok |-> chain_manager_current_level
                     >= remote_best_known_level - bootstrap_level_threshold]

\* The level of a head slot, 0 when the slot is empty (unwrap_or(0)).
head_level(slot) == IF slot = None THEN 0 ELSE level(slot)

\* b and its ancestors, genesis excluded.
RECURSIVE Ancestors(_)
Ancestors(b) == IF b = Genesis THEN {} ELSE {b} \cup Ancestors(predecessor(b))

\* The level check that lets every header through.
need_update_remote_level_always(new_remote_level) == TRUE

\* The level check that lets a header of the same level through.
need_update_remote_level_or_equal(new_remote_level) ==
    IF current_head_remote = None
      THEN TRUE
      ELSE new_remote_level >= level(current_head_remote)

\* CurrentHead::need_update_remote_level
need_update_remote_level(new_remote_level) ==
    IF current_head_remote = None
      THEN TRUE
      ELSE new_remote_level > level(current_head_remote)

\* The write of CurrentHead::update_remote_head, need being the result of the
\* level check the handler made before it.
update_remote_head(need, block_header) ==
    current_head_remote' = IF need THEN block_header ELSE current_head_remote

\* BlockchainState::can_accept_branch
can_accept_branch(head) == fitness(head) > fitness(current_head_local)

\* BlockchainState::can_accept_head: the results the pre-check can give.
can_accept_head(head) ==
    IF fitness(head) <= fitness(current_head_local)
      THEN {"IgnoreBlock"}
      ELSE IF predecessor(head) \notin block_storage
             THEN {"UnknownBranch"}
             ELSE {"AcceptBlock", "MutlipassValidationError"}

\* BlockMetaStorage::put_block_header: the meta record of a new header, and
\* the successor link of its predecessor unless one is recorded already.
put_block_header(b) ==
    LET pred == predecessor(b)
        m == block_meta_storage
    IN [m EXCEPT
          ![b] = IF ~m[b].present THEN Meta(FALSE, None) ELSE m[b],
          ![pred] = IF m[pred].present /\ m[pred].successor = None
                      THEN [m[pred] EXCEPT !.successor = b]
                      ELSE m[pred]]

\* An ingestion that stores the meta record of a new header as applied.
process_downloaded_header_applied(b) ==
    IF b \in block_storage
      THEN UNCHANGED <<block_storage, block_meta_storage, block_received_events>>
      ELSE /\ block_storage' = block_storage \cup {b}
           /\ block_meta_storage' =
                 [put_block_header(b) EXCEPT ![b] = Meta(TRUE, None)]
           /\ block_received_events' = [block_received_events EXCEPT ![b] = @ + 1]

\* An ingestion that publishes BlockReceived for every header it is given.
process_downloaded_header_republished(b) ==
    /\ block_storage' = block_storage \cup {b}
    /\ block_meta_storage' = put_block_header(b)
    /\ block_received_events' = [block_received_events EXCEPT ![b] = @ + 1]

\* BlockchainState::process_block_header_from_peer with
\* ChainManager::process_downloaded_header: a header not stored yet is
\* stored and BlockReceived is published; a stored one changes nothing.
process_downloaded_header(b) ==
    IF b \in block_storage
      THEN UNCHANGED <<block_storage, block_meta_storage, block_received_events>>
      ELSE /\ block_storage' = block_storage \cup {b}
           /\ block_meta_storage' = put_block_header(b)
           /\ block_received_events' = [block_received_events EXCEPT ![b] = @ + 1]

\* BlockchainState::data_queues_limits: the requests of one kind a peer may
\* have in flight.
data_queues_limits ==
    [max_queued_block_headers_count |-> 2, max_queued_block_operations_count |-> 2]

\* The requests in flight after the wanted keys are scheduled into a pipeline
\* that holds queued: keys are admitted lowest level first while the pipeline
\* is below its limit, and the rest is deferred to a later scheduling.
admit(queued, wanted, limit) ==
    LET new == wanted \ queued
        free == limit - Cardinality(queued)
    IN queued \cup {a \in new : Cardinality({c \in new : level(c) < level(a)}) < free}

\* The scheduling without the limits of the peer's pipelines.
schedule_history_bootstrap_unlimited(p, head, stored) ==
    /\ queued_block_headers' =
          [queued_block_headers EXCEPT
             ![p] = @ \cup {a \in Ancestors(head) : a \notin stored}]
    /\ queued_block_operations' =
          [queued_block_operations EXCEPT
             ![p] = @ \cup {a \in Ancestors(head) : a \in stored /\ ~is_complete(a)}]
    /\ peer_branch_bootstrapper' = [peer_branch_bootstrapper EXCEPT ![p] = TRUE]

\* BlockchainState::schedule_history_bootstrap: the headers missing on the
\* branch of head, and the operations of its stored blocks that are not
\* complete, are requested from the peer, within the limits of the peer's
\* pipelines.  stored is the header store after the handler's own ingestion.
schedule_history_bootstrap(p, head, stored) ==
    /\ queued_block_headers' =
          [queued_block_headers EXCEPT
             ![p] = admit(@, {a \in Ancestors(head) : a \notin stored},
                          data_queues_limits.max_queued_block_headers_count)]
    /\ queued_block_operations' =
          [queued_block_operations EXCEPT
             ![p] = admit(@, {a \in Ancestors(head) : a \in stored /\ ~is_complete(a)},
                          data_queues_limits.max_queued_block_operations_count)]
    /\ peer_branch_bootstrapper' = [peer_branch_bootstrapper EXCEPT ![p] = TRUE]

\* What every ChainManager handler leaves alone: the applier thread's state,
\* the local head slot, the configuration, the mempool state and the clock.
\* The timers of a peer are followed apart from the handlers' other effects,
\* by the steps of PeerStateStep below.
notPeerTimers == <<feederVars, current_head_local, config,
                   current_mempool_state, now, post_stop_pc,
                   mempool_storage, shutting_down, shell_automaton>>

notBootstrapper == <<notPeerTimers, peer_state>>

notChainManager == <<notBootstrapper, peer_branch_bootstrapper,
                     missing_mempool_operations, queued_mempool_operations>>

\* A PeerBootstrapped handler that stores the peer and asks it nothing.
PeerBootstrappedNotAsked(p) ==
    /\ cm_pc = "idle"
    /\ peers' = peers \cup {p}
    /\ queued_block_headers' = [queued_block_headers EXCEPT ![p] = {}]
    /\ queued_block_operations' = [queued_block_operations EXCEPT ![p] = {}]
    /\ peer_branch_bootstrapper' = [peer_branch_bootstrapper EXCEPT ![p] = FALSE]
    /\ missing_mempool_operations' = [missing_mempool_operations EXCEPT ![p] = {}]
    /\ queued_mempool_operations' = [queued_mempool_operations EXCEPT ![p] = {}]
    /\ cm_out' = {}
    /\ UNCHANGED <<block_storage, block_meta_storage, operations_received,
                   current_head_remote, bootstrap_state, cm_pc, cm_msg,
                   block_received_events, notBootstrapper>>

\* NetworkChannelMsg::PeerBootstrapped
PeerBootstrapped(p) ==
    /\ cm_pc = "idle"
    /\ peers' = peers \cup {p}
    /\ queued_block_headers' = [queued_block_headers EXCEPT ![p] = {}]
    /\ queued_block_operations' = [queued_block_operations EXCEPT ![p] = {}]
    /\ peer_branch_bootstrapper' = [peer_branch_bootstrapper EXCEPT ![p] = FALSE]
    /\ missing_mempool_operations' = [missing_mempool_operations EXCEPT ![p] = {}]
    /\ queued_mempool_operations' = [queued_mempool_operations EXCEPT ![p] = {}]
    /\ cm_out' = {<<p, "GetCurrentBranch", get_chain_id>>}
    /\ UNCHANGED <<block_storage, block_meta_storage, operations_received,
                   current_head_remote, bootstrap_state, cm_pc, cm_msg,
                   block_received_events, notBootstrapper>>

\* self.peers.remove: the PeerState of p is dropped, with the requests queued
\* in it and its reference to the peer's PeerBranchBootstrapper.
remove(p) ==
    /\ peers' = peers \ {p}
    /\ queued_block_headers' = [queued_block_headers EXCEPT ![p] = {}]
    /\ queued_block_operations' = [queued_block_operations EXCEPT ![p] = {}]
    /\ peer_branch_bootstrapper' = [peer_branch_bootstrapper EXCEPT ![p] = FALSE]
    /\ missing_mempool_operations' = [missing_mempool_operations EXCEPT ![p] = {}]
    /\ queued_mempool_operations' = [queued_mempool_operations EXCEPT ![p] = {}]

\* NetworkChannelMsg::PeerStalled
PeerStalled(p) ==
    /\ cm_pc = "idle"
    /\ p \in peers
    /\ remove(p)
    /\ cm_out' = IF peer_branch_bootstrapper[p]
                   THEN {<<p, "stop_bootstrapper", None>>}
                   ELSE {}
    /\ UNCHANGED <<block_storage, block_meta_storage, operations_received,
                   current_head_remote, bootstrap_state, cm_pc, cm_msg,
                   block_received_events, notBootstrapper>>

\* SystemEvent::ActorTerminated, of the actor of a peer
ActorTerminated(p) ==
    /\ cm_pc = "idle"
    /\ p \in peers
    /\ remove(p)
    /\ cm_out' = {}
    /\ UNCHANGED <<block_storage, block_meta_storage, operations_received,
                   current_head_remote, bootstrap_state, cm_pc, cm_msg,
                   block_received_events, notBootstrapper>>

\* A peer leaves the registry, either way.
PeerRemoved(p) ==
    \/ PeerStalled(p)
    \/ ActorTerminated(p)

\* PeerMessage::CurrentBranch, up to the level check of update_remote_head.
ReceiveCurrentBranch(p, head) ==
    /\ cm_pc = "idle"
    /\ p \in peers
    /\ IF ~can_accept_branch(head)
         THEN UNCHANGED <<cm_pc, cm_msg>>
         ELSE /\ cm_pc' = "update_remote_head"
              /\ cm_msg' = [kind |-> "CurrentBranch", peer |-> p, head |-> head,
                            need |-> need_update_remote_level(level(head)),
                                     mempool |-> {}]
    /\ cm_out' = {}
    /\ UNCHANGED <<block_storage, block_meta_storage, operations_received,
                   current_head_remote, peers, queued_block_headers,
                   queued_block_operations, bootstrap_state,
                   block_received_events, notChainManager>>

\* The CurrentHead handler that blacklists a peer without clearing it.
ReceiveCurrentHeadPeerKept(p, head) ==
    /\ cm_pc = "idle"
    /\ p \in peers
    /\ IF ~is_bootstrapped
         THEN /\ cm_out' = {}
              /\ UNCHANGED <<cm_pc, cm_msg, queued_block_headers,
                             queued_block_operations>>
         ELSE \E result \in can_accept_head(head) :
                CASE result = "AcceptBlock" ->
                       /\ cm_pc' = "update_remote_head"
                       /\ cm_msg' = [kind |-> "CurrentHead", peer |-> p,
                                     head |-> head,
                                     need |-> need_update_remote_level(level(head)),
                                     mempool |-> {}]
                       /\ cm_out' = {}
                       /\ UNCHANGED <<queued_block_headers, queued_block_operations>>
                  [] result = "IgnoreBlock" ->
                       /\ cm_out' = {}
                       /\ UNCHANGED <<cm_pc, cm_msg, queued_block_headers,
                                      queued_block_operations>>
                  [] result = "UnknownBranch" ->
                       /\ cm_out' = {<<p, "GetCurrentBranch", get_chain_id>>}
                       /\ UNCHANGED <<cm_pc, cm_msg, queued_block_headers,
                                      queued_block_operations>>
                  [] result = "MutlipassValidationError" ->
                       /\ cm_out' = {<<p, "BlacklistPeer", result>>}
                       /\ UNCHANGED <<cm_pc, cm_msg, queued_block_headers,
                                      queued_block_operations>>
    /\ UNCHANGED <<block_storage, block_meta_storage, operations_received,
                   current_head_remote, peers, bootstrap_state,
                   block_received_events, notChainManager>>

\* PeerState::clear: what is pending for the peer is dropped.
clear(p) ==
    /\ queued_block_headers' = [queued_block_headers EXCEPT ![p] = {}]
    /\ queued_block_operations' = [queued_block_operations EXCEPT ![p] = {}]
    /\ missing_mempool_operations' = [missing_mempool_operations EXCEPT ![p] = {}]
    /\ queued_mempool_operations' = [queued_mempool_operations EXCEPT ![p] = {}]

\* A CurrentHead handler that asks the peer for its branch whenever it does
\* not accept the head.
ReceiveCurrentHeadAskingAlways(p, head, current_mempool) ==
    /\ cm_pc = "idle"
    /\ p \in peers
    /\ IF ~is_bootstrapped
         THEN /\ cm_out' = {}
              /\ UNCHANGED <<cm_pc, cm_msg>>
         ELSE \E result \in can_accept_head(head) :
                IF result = "AcceptBlock"
                  THEN /\ cm_pc' = "update_remote_head"
                       /\ cm_msg' = [kind |-> "CurrentHead", peer |-> p,
                                     head |-> head,
                                     need |-> need_update_remote_level(level(head)),
                                     mempool |-> current_mempool]
                       /\ cm_out' = {}
                  ELSE /\ cm_out' = {<<p, "GetCurrentBranch", get_chain_id>>}
                       /\ UNCHANGED <<cm_pc, cm_msg>>
    /\ UNCHANGED <<block_storage, block_meta_storage, operations_received,
                   current_head_remote, peers, queued_block_headers,
                   queued_block_operations, bootstrap_state,
                   block_received_events, notChainManager>>

\* The arms of the CurrentHead handler for the results of can_accept_head.
CurrentHeadClassified(p, head, current_mempool) ==
    \E result \in can_accept_head(head) :
       CASE result = "AcceptBlock" ->
              /\ cm_pc' = "update_remote_head"
              /\ cm_msg' = [kind |-> "CurrentHead", peer |-> p,
                            head |-> head,
                            need |-> need_update_remote_level(level(head)),
                            mempool |-> current_mempool]
              /\ cm_out' = {}
              /\ UNCHANGED <<queued_block_headers, queued_block_operations,
                             missing_mempool_operations,
                             queued_mempool_operations>>
         [] result = "IgnoreBlock" ->
              /\ cm_out' = {}
              /\ UNCHANGED <<cm_pc, cm_msg, queued_block_headers,
                             queued_block_operations,
                             missing_mempool_operations,
                             queued_mempool_operations>>
         [] result = "UnknownBranch" ->
              /\ cm_out' = {<<p, "GetCurrentBranch", get_chain_id>>}
              /\ UNCHANGED <<cm_pc, cm_msg, queued_block_headers,
                             queued_block_operations,
                             missing_mempool_operations,
                             queued_mempool_operations>>
         [] result = "MutlipassValidationError" ->
              \* peer.clear(), then BlacklistPeer
              /\ clear(p)
              /\ cm_out' = {<<p, "BlacklistPeer", result>>}
              /\ UNCHANGED <<cm_pc, cm_msg>>

\* The CurrentHead handler without the check of is_bootstrapped.
CurrentHeadArmsUngated(p, head, current_mempool) ==
    /\ cm_pc = "idle"
    /\ p \in peers
    /\ CurrentHeadClassified(p, head, current_mempool)
    /\ UNCHANGED <<block_storage, block_meta_storage, operations_received,
                   current_head_remote, peers, bootstrap_state,
                   block_received_events, notPeerTimers,
                   peer_branch_bootstrapper>>

\* PeerMessage::CurrentHead, up to the level check of update_remote_head,
\* but for the timers and the level of the peer's PeerState.  The message
\* names the chain of the node; it carries the header head and the
\* operations current_mempool.
CurrentHeadArms(p, head, current_mempool) ==
    /\ cm_pc = "idle"
    /\ p \in peers
    /\ IF ~is_bootstrapped
         THEN /\ cm_out' = {}
              /\ UNCHANGED <<cm_pc, cm_msg, queued_block_headers,
                             queued_block_operations,
                             missing_mempool_operations,
                             queued_mempool_operations>>
         ELSE CurrentHeadClassified(p, head, current_mempool)
    /\ UNCHANGED <<block_storage, block_meta_storage, operations_received,
                   current_head_remote, peers, bootstrap_state,
                   block_received_events, notPeerTimers,
                   peer_branch_bootstrapper>>

\* PeerMessage::CurrentHead of a peer whose timers are not followed.
ReceiveCurrentHeadMessage(p, head, current_mempool) ==
    /\ CurrentHeadArms(p, head, current_mempool)
    /\ UNCHANGED peer_state

\* A CurrentHead message with an empty mempool.
ReceiveCurrentHead(p, head) == ReceiveCurrentHeadMessage(p, head, {})

\* The rest of the CurrentBranch and CurrentHead handlers: the write of
\* update_remote_head, the ingestion of an accepted head, the scheduling.
HandleAcceptedHead ==
    /\ cm_pc = "update_remote_head"
    /\ update_remote_head(cm_msg.need, cm_msg.head)
    /\ IF cm_msg.kind = "CurrentHead"
         THEN /\ process_downloaded_header(cm_msg.head)
              /\ schedule_history_bootstrap(cm_msg.peer, cm_msg.head,
                                            block_storage \cup {cm_msg.head})
         ELSE /\ schedule_history_bootstrap(cm_msg.peer, cm_msg.head, block_storage)
              /\ UNCHANGED <<block_storage, block_meta_storage,
                             block_received_events>>
    \* the operations of an accepted head's mempool are to be fetched from
    \* the peer; the CheckMempoolCompleteness the actor then tells itself is
    \* not followed
    /\ missing_mempool_operations' =
          [missing_mempool_operations EXCEPT ![cm_msg.peer] = @ \cup cm_msg.mempool]
    /\ UNCHANGED queued_mempool_operations
    /\ cm_pc' = "idle"
    /\ cm_msg' = NoMsg
    /\ UNCHANGED <<operations_received, peers, bootstrap_state, cm_out,
                   notBootstrapper>>

\* The BlockHeader handler without the check that the header was requested
\* from the peer.
ReceiveBlockHeaderUnrequested(p, b) ==
    /\ cm_pc = "idle"
    /\ p \in peers
    /\ queued_block_headers' = [queued_block_headers EXCEPT ![p] = @ \ {b}]
    /\ process_downloaded_header(b)
    /\ queued_block_operations' =
          [queued_block_operations EXCEPT
             ![p] = IF is_complete(b) THEN @ ELSE @ \cup {b}]
    /\ cm_out' = {}
    /\ UNCHANGED <<operations_received, current_head_remote, peers,
                   bootstrap_state, cm_pc, cm_msg, notChainManager>>

\* PeerMessage::BlockHeader
ReceiveBlockHeader(p, b) ==
    /\ cm_pc = "idle"
    /\ p \in peers
    /\ IF b \in queued_block_headers[p]
         THEN /\ queued_block_headers' =
                    [queued_block_headers EXCEPT ![p] = @ \ {b}]
              /\ process_downloaded_header(b)
              /\ queued_block_operations' =
                    [queued_block_operations EXCEPT
                       ![p] = IF is_complete(b)
                                THEN @
                                ELSE admit(@, {b},
                                           data_queues_limits.max_queued_block_operations_count)]
         ELSE UNCHANGED <<queued_block_headers, queued_block_operations,
                          block_storage, block_meta_storage,
                          block_received_events>>
    /\ cm_out' = {}
    /\ UNCHANGED <<operations_received, current_head_remote, peers,
                   bootstrap_state, cm_pc, cm_msg, notChainManager>>

\* PeerMessage::OperationsForBlocks: operations requested from the peer are
\* stored, and AllBlockOperationsReceived is published when they complete the
\* block.
ReceiveOperationsForBlocks(p, b, pass) ==
    /\ cm_pc = "idle"
    /\ p \in peers
    /\ IF b \in queued_block_operations[p]
         THEN /\ operations_received' =
                    [operations_received EXCEPT ![b] = @ \cup {pass}]
              /\ queued_block_operations' =
                    [queued_block_operations EXCEPT
                       ![p] = IF operations_received'[b] = validation_passes(b)
                                THEN @ \ {b} ELSE @]
              /\ cm_out' = IF operations_received'[b] = validation_passes(b)
                             THEN {<<None, "AllBlockOperationsReceived", b>>}
                             ELSE {}
         ELSE /\ UNCHANGED <<operations_received, queued_block_operations>>
              /\ cm_out' = {}
    /\ UNCHANGED <<block_storage, block_meta_storage, current_head_remote,
                   peers, queued_block_headers, bootstrap_state, cm_pc, cm_msg,
                   block_received_events, notChainManager>>

\* resolve_is_bootstrapped without its early return.
resolve_is_bootstrapped_unguarded(p) ==
    IF p \in peers
      THEN bootstrap_state' =
              update_by_peer_state(p, head_level(current_head_remote),
                                   head_level(current_head_local))
      ELSE UNCHANGED bootstrap_state

\* resolve_is_bootstrapped without the lookup of the peer in the registry.
resolve_is_bootstrapped_any_peer(p) ==
    IF is_bootstrapped
      THEN UNCHANGED bootstrap_state
      ELSE bootstrap_state' =
              update_by_peer_state(p, head_level(current_head_remote),
                                   head_level(current_head_local))

\* ChainManager::resolve_is_bootstrapped.  On both paths the handler also
\* clears the peer's missing_operations_for_blocks, the operations not yet
\* requested; the model holds the requested ones only
\* (queued_block_operations), which the clearing leaves as they are.
resolve_is_bootstrapped(p) ==
    IF is_bootstrapped
      THEN UNCHANGED bootstrap_state
      ELSE IF p \in peers
             THEN bootstrap_state' =
                     update_by_peer_state(p, head_level(current_head_remote),
                                          head_level(current_head_local))
             ELSE UNCHANGED bootstrap_state

\* ShellChannelMsg::PeerBranchSynchronizationDone
ReceivePeerBranchSynchronizationDone(p) ==
    /\ cm_pc = "idle"
    /\ resolve_is_bootstrapped(p)
    /\ cm_out' = {}
    /\ UNCHANGED <<block_storage, block_meta_storage, operations_received,
                   current_head_remote, peers, queued_block_headers,
                   queued_block_operations, cm_pc, cm_msg,
                   block_received_events, notChainManager>>

\* The hash the message AdvertiseToP2pNewCurrentHead carries: its sender
\* names the local head.
NewCurrentHead == current_head_local

\* An advertisement that tells every peer its message, whether or not the
\* message carries a mempool.
advertise_to_every_peer(block_header, mempool, ignore_msg_with_empty_mempool) ==
    LET msg_for_mempool_enabled ==
            IF config.p2p_disable_mempool THEN {} ELSE mempool
        msg(q) == IF mempool_enabled(q) THEN msg_for_mempool_enabled ELSE {}
    IN {<<q, "CurrentHead", block_header, msg(q)>> : q \in peers}

\* ChainManager::advertise_current_head_to_p2p: the CurrentHead messages told
\* to the peers.
advertise_current_head_to_p2p(block_header, mempool, ignore_msg_with_empty_mempool) ==
    LET msg_for_mempool_enabled ==
            IF config.p2p_disable_mempool THEN {} ELSE mempool
        msg(q) == IF mempool_enabled(q) THEN msg_for_mempool_enabled ELSE {}
        can_send_msg(q) == ~(ignore_msg_with_empty_mempool /\ msg(q) = {})
    IN {<<q, "CurrentHead", block_header, msg(q)>> : q \in {r \in peers : can_send_msg(r)}}

\* An advertisement of the remote head in place of the hash of the message.
AdvertiseRemoteHead(block_hash) ==
    /\ cm_pc = "idle"
    /\ cm_out' = IF current_head_remote \in block_storage
                   THEN advertise_current_head_to_p2p(current_head_remote, {}, FALSE)
                   ELSE {}
    /\ UNCHANGED <<block_storage, block_meta_storage, operations_received,
                   current_head_remote, peers, queued_block_headers,
                   queued_block_operations, bootstrap_state, cm_pc, cm_msg,
                   block_received_events, notChainManager>>

\* ShellChannelMsg::AdvertiseToP2pNewCurrentHead
AdvertiseToP2pNewCurrentHead(block_hash) ==
    /\ cm_pc = "idle"
    /\ cm_out' = IF block_hash \in block_storage
                   THEN advertise_current_head_to_p2p(block_hash, {}, FALSE)
                   ELSE {}
    /\ UNCHANGED <<block_storage, block_meta_storage, operations_received,
                   current_head_remote, peers, queued_block_headers,
                   queued_block_operations, bootstrap_state, cm_pc, cm_msg,
                   block_received_events, notChainManager>>

\* ShellChannelMsg::AdvertiseToP2pNewMempool
AdvertiseToP2pNewMempool(block_hash, new_mempool) ==
    /\ cm_pc = "idle"
    /\ cm_out' = IF block_hash \in block_storage
                   THEN advertise_current_head_to_p2p(block_hash, new_mempool, TRUE)
                   ELSE {}
    /\ UNCHANGED <<block_storage, block_meta_storage, operations_received,
                   current_head_remote, peers, queued_block_headers,
                   queued_block_operations, bootstrap_state, cm_pc, cm_msg,
                   block_received_events, notChainManager>>

\* The mempool component gives the mempool state a head and operations.
MempoolStateChanged(head, ops) ==
    /\ current_mempool_state' = [head |-> head, ops |-> ops]
    /\ cm_out' = {}
    /\ UNCHANGED <<block_storage, block_meta_storage, operations_received,
                   feederVars, current_head_local, config, peers,
                   queued_block_headers, queued_block_operations,
                   current_head_remote, bootstrap_state, cm_pc, cm_msg,
                   block_received_events, now, peer_state,
                   peer_branch_bootstrapper, post_stop_pc,
                   missing_mempool_operations,
          queued_mempool_operations, mempool_storage, shutting_down,
          shell_automaton>>

\* The mempool resolved by the peer's flag and the mempool state alone.
resolve_mempool_by_peer_only(p, current_head) ==
    IF mempool_enabled(p) /\ current_mempool_state.head = current_head
      THEN current_mempool_state.ops
      ELSE {}

\* ChainManager::resolve_mempool_to_send_to_peer
resolve_mempool_to_send_to_peer(p, current_head) ==
    IF config.p2p_disable_mempool
      THEN {}
      ELSE IF ~mempool_enabled(p)
             THEN {}
             ELSE IF current_mempool_state.head = current_head
                    THEN current_mempool_state.ops
                    ELSE {}

\* The handlers of GetCurrentBranch and GetCurrentHead without the
\* comparison of chain ids.
ReceiveGetCurrentAnyChain(p, kind, same_chain_id) ==
    /\ cm_pc = "idle"
    /\ p \in peers
    /\ cm_out' = IF current_head_local \in block_storage
                   THEN IF kind = "CurrentHead"
                          THEN {<<p, kind, current_head_local,
                                  resolve_mempool_to_send_to_peer(p, current_head_local)>>}
                          ELSE {<<p, kind, current_head_local>>}
                   ELSE {}
    /\ UNCHANGED <<block_storage, block_meta_storage, operations_received,
                   current_head_remote, peers, queued_block_headers,
                   queued_block_operations, bootstrap_state, cm_pc, cm_msg,
                   block_received_events, notChainManager>>

\* PeerMessage::GetCurrentBranch and PeerMessage::GetCurrentHead: the local
\* head is sent back when the message names the node's chain and the header
\* of the local head is stored; a CurrentHead goes with the mempool resolved
\* for the peer.  A GetCurrentBranch of another chain is logged (warn!), a
\* GetCurrentHead of another chain is not.
ReceiveGetCurrent(p, kind, same_chain_id) ==
    /\ cm_pc = "idle"
    /\ p \in peers
    /\ cm_out' = IF same_chain_id
                   THEN IF current_head_local \in block_storage
                          THEN IF kind = "CurrentHead"
                                 THEN {<<p, kind, current_head_local,
                                         resolve_mempool_to_send_to_peer(p, current_head_local)>>}
                                 ELSE {<<p, kind, current_head_local>>}
                          ELSE {}
                   ELSE IF kind = "CurrentBranch"
                          THEN {<<p, "warn", "unsupported chain_id">>}
                          ELSE {}
    /\ UNCHANGED <<block_storage, block_meta_storage, operations_received,
                   current_head_remote, peers, queued_block_headers,
                   queued_block_operations, bootstrap_state, cm_pc, cm_msg,
                   block_received_events, notChainManager>>

\* The chain ids a peer's message may name.
ChainIds == {get_chain_id, "other_chain"}

\* A GetCurrentBranch or GetCurrentHead message that names chain_id.
ReceiveGetCurrentMessage(p, kind, chain_id) ==
    ReceiveGetCurrent(p, kind, get_chain_id = chain_id)

\* AskPeersAboutCurrentHead, and ShellChannelMsg::RequestCurrentHead
AskPeersAboutCurrentHead ==
    /\ cm_pc = "idle"
    /\ cm_out' = {<<q, "GetCurrentHead", get_chain_id>> : q \in peers}
    /\ UNCHANGED <<block_storage, block_meta_storage, operations_received,
                   current_head_remote, peers, queued_block_headers,
                   queued_block_operations, bootstrap_state, cm_pc, cm_msg,
                   block_received_events, notChainManager>>

\* Receive<DisconnectStalledPeers>: the peers of stalled, those the timeouts
\* single out, are stopped, and so is their branch bootstrapper.
DisconnectStalledPeers(stalled) ==
    /\ cm_pc = "idle"
    /\ stalled \subseteq peers
    /\ cm_out' = {<<q, "stop", None>> : q \in stalled}
                  \cup {<<q, "stop_bootstrapper", None>> :
                          q \in {r \in stalled : peer_branch_bootstrapper[r]}}
    /\ UNCHANGED <<block_storage, block_meta_storage, operations_received,
                   current_head_remote, peers, queued_block_headers,
                   queued_block_operations, bootstrap_state, cm_pc, cm_msg,
                   block_received_events, notChainManager>>

(***************************************************************************)
(* The timers of a peer and the scan for stalled peers.                    *)
(***************************************************************************)

CURRENT_HEAD_LEVEL_UPDATE_TIMEOUT == 120

SILENT_PEER_TIMEOUT == 60

SILENT_PEER_TIMEOUT_SANDBOX == 31536000

\* The scan periods the clock runs for.
MaxPeriods == 2

\* ChainManager::pre_start: the timeout the scan is scheduled with.
silent_peer_timeout ==
    IF config.is_sandbox THEN SILENT_PEER_TIMEOUT_SANDBOX ELSE SILENT_PEER_TIMEOUT

\* The peer whose PeerState is followed.
WatchedPeer == "p1"

\* The operations of the mempool a peer advertises.
MempoolOperations == {"op1", "op2"}

\* PeerState.current_head_level: Option<Level>
NoLevel == [some |-> FALSE, level |-> 0]

SomeLevel(l) == [some |-> TRUE, level |-> l]

\* The instant of a request that waits for its response, if there is one.
NoRequest == [some |-> FALSE, at |-> 0]

RequestAt(t) == [some |-> TRUE, at |-> t]

\* PeerState::new at the instant t
NewPeerState(t) ==
    [current_head_level |-> NoLevel,
     current_head_update_last |-> t,
     current_head_request_last |-> t,
     current_head_response_last |-> t,
     mempool_operations_request_last |-> t,
     mempool_operations_response_last |-> t,
     queued_mempool_operations |-> {},
     block_request_last |-> NoRequest,
     block_operations_request_last |-> NoRequest]

\* PeerState::update_current_head_level
update_current_head_level(state, new_level) ==
    IF ~state.current_head_level.some \/ state.current_head_level.level < new_level
      THEN [state EXCEPT !.current_head_level = SomeLevel(new_level),
                         !.current_head_update_last = now]
      ELSE state

\* CurrentHead::has_any_higher_than
has_any_higher_than(level_to_check) ==
    \/ current_head_remote # None /\ level(current_head_remote) > level_to_check
    \/ current_head_local # None /\ level(current_head_local) > level_to_check

\* PeerState::is_block_response_pending
is_block_response_pending(state, timeout) ==
    state.block_request_last.some /\ now - state.block_request_last.at > timeout

\* PeerState::is_block_operations_response_pending
is_block_operations_response_pending(state, timeout) ==
    /\ state.block_operations_request_last.some
    /\ now - state.block_operations_request_last.at > timeout

\* The verdict of the scan with the mempool timeout left out.
should_disconnect_but_mempool(state, timeout) ==
    LET current_head_response_pending ==
            state.current_head_request_last > state.current_head_response_last
        known_higher_head ==
            IF state.current_head_level.some
              THEN has_any_higher_than(state.current_head_level.level)
              ELSE TRUE
    IN IF \/ is_block_response_pending(state, timeout)
          \/ is_block_operations_response_pending(state, timeout)
         THEN TRUE
         ELSE IF /\ current_head_response_pending
                 /\ state.current_head_request_last - state.current_head_response_last
                       > timeout
                THEN TRUE
                ELSE known_higher_head
                        /\ now - state.current_head_update_last
                              > CURRENT_HEAD_LEVEL_UPDATE_TIMEOUT

\* Receive<DisconnectStalledPeers>: should_disconnect for a peer in the state
\* given, timeout being the silent_peer_timeout of the message.
should_disconnect(state, timeout) ==
    LET current_head_response_pending ==
            state.current_head_request_last > state.current_head_response_last
        mempool_operations_response_pending ==
            state.mempool_operations_request_last > state.mempool_operations_response_last
        known_higher_head ==
            IF state.current_head_level.some
              THEN has_any_higher_than(state.current_head_level.level)
              ELSE TRUE
        block_response_pending == is_block_response_pending(state, timeout)
        block_operations_response_pending ==
            is_block_operations_response_pending(state, timeout)
    IN IF block_response_pending \/ block_operations_response_pending
         THEN TRUE
         ELSE IF /\ current_head_response_pending
                 /\ state.current_head_request_last - state.current_head_response_last
                       > timeout
                THEN TRUE
                ELSE IF /\ known_higher_head
                        /\ now - state.current_head_update_last
                              > CURRENT_HEAD_LEVEL_UPDATE_TIMEOUT
                       THEN TRUE
                       ELSE IF /\ mempool_operations_response_pending
                               /\ state.queued_mempool_operations # {}
                               /\ now - state.mempool_operations_response_last > timeout
                              THEN TRUE
                              ELSE FALSE

\* What the steps of a peer's timers leave alone.
notPeerState == <<block_storage, block_meta_storage, operations_received,
                  feederVars, current_head_local, peers, queued_block_headers,
                  queued_block_operations, current_head_remote, bootstrap_state,
                  cm_pc, cm_msg, block_received_events, config,
                  current_mempool_state, peer_branch_bootstrapper,
                  post_stop_pc, missing_mempool_operations,
          queued_mempool_operations, mempool_storage, shutting_down,
          shell_automaton>>

\* The time between two deliveries of DisconnectStalledPeers goes by.
Tick ==
    /\ now < MaxPeriods * CURRENT_HEAD_LEVEL_UPDATE_TIMEOUT
         \/ (config.is_sandbox /\ now < MaxPeriods * silent_peer_timeout)
    /\ now' = now + (IF config.is_sandbox
                        THEN silent_peer_timeout
                        ELSE CURRENT_HEAD_LEVEL_UPDATE_TIMEOUT)
    /\ cm_out' = {}
    /\ UNCHANGED <<peer_state, notPeerState>>

\* What a handler does to the PeerState of the peer followed.
PeerStateStep(next_state) ==
    /\ peer_state' = next_state
    /\ cm_out' = {}
    /\ UNCHANGED <<now, notPeerState>>

\* NetworkChannelMsg::PeerBootstrapped: the peer connects again.
PeerStateNew == PeerStateStep(NewPeerState(now))

\* AskPeersAboutCurrentHead and ShellChannelMsg::RequestCurrentHead
PeerStateCurrentHeadRequested ==
    PeerStateStep([peer_state EXCEPT !.current_head_request_last = now])

\* PeerMessage::CurrentHead
PeerStateCurrentHeadReceived(l) ==
    PeerStateStep(update_current_head_level(
                     [peer_state EXCEPT !.current_head_response_last = now], l))

\* PeerMessage::CurrentBranch
PeerStateCurrentBranchReceived(l) ==
    PeerStateStep(update_current_head_level(peer_state, l))

\* A block header is requested from the peer while none is awaited, or the
\* header awaited arrives.
PeerStateBlockRequested(pending) ==
    PeerStateStep([peer_state EXCEPT
                     !.block_request_last =
                         IF ~pending THEN NoRequest
                         ELSE IF @.some THEN @ ELSE RequestAt(now)])

\* Block operations are requested from the peer while none are awaited, or
\* the operations awaited arrive.
PeerStateBlockOperationsRequested(pending) ==
    PeerStateStep([peer_state EXCEPT
                     !.block_operations_request_last =
                         IF ~pending THEN NoRequest
                         ELSE IF @.some THEN @ ELSE RequestAt(now)])

\* ChainManager::check_mempool_completeness: the operations of the mempool the
\* peer advertised are requested from it.  The instant of a request is later
\* than the instants recorded before it, which the clock of the model tells
\* apart after a Tick only.
PeerStateMempoolOperationsRequested ==
    /\ now > peer_state.mempool_operations_response_last
    /\ PeerStateStep([peer_state EXCEPT
                        !.queued_mempool_operations = MempoolOperations,
                        !.mempool_operations_request_last = now])

\* PeerMessage::Operation
PeerStateOperationReceived(op, accepted) ==
    PeerStateStep(IF op \in peer_state.queued_mempool_operations
                    THEN [peer_state EXCEPT
                            !.queued_mempool_operations = @ \ {op},
                            !.mempool_operations_response_last =
                                IF accepted THEN now ELSE @]
                    ELSE peer_state)

\* Receive<DisconnectStalledPeers> for the peer followed.  The message is
\* scheduled every silent_peer_timeout, the first after that delay.
DisconnectStalledPeer ==
    /\ now >= silent_peer_timeout
    /\ cm_out' = IF should_disconnect(peer_state, silent_peer_timeout)
                   THEN {<<WatchedPeer, "stop", None>>}
                   ELSE {}
    /\ UNCHANGED <<now, peer_state, notPeerState>>

\* The validation passes 0 .. n-1.
FirstPasses(n) == {i \in ValidationPasses : i < n}

\* The calls of an injection that may fail: the store of the header
\* (process_injected_block_header), the store of the first validation pass
\* (process_block_operations) and try_apply_block.
InjectionFailures == {"none", "store_header", "store_pass", "try_apply"}

\* The storing of the first validation pass is reached and fails.
store_pass_fails(n_ops, n_paths, failure) ==
    failure = "store_pass" /\ n_ops >= 1 /\ n_paths >= 1

\* requester().try_apply_block with the caller's callback; when the call
\* fails the error goes to the callback.
try_apply_block(b, failure) ==
    IF failure = "try_apply"
      THEN {<<None, "callback_err", b>>}
      ELSE {<<None, "try_apply_block", b>>}

\* An injection that asks for the application of a block it knows already.
process_injected_block_twice(b, n_ops, n_paths, failure) ==
    IF b \in block_storage
      THEN /\ cm_out' = {<<None, "try_apply_block", b>>}
           /\ UNCHANGED <<block_storage, block_meta_storage,
                          operations_received, block_received_events>>
      ELSE /\ block_storage' = block_storage \cup {b}
           /\ block_meta_storage' = put_block_header(b)
           /\ block_received_events' = [block_received_events EXCEPT ![b] = @ + 1]
           /\ operations_received' =
                 [operations_received EXCEPT
                    ![b] = @ \cup (FirstPasses(n_ops) \cap FirstPasses(n_paths))]
           /\ cm_out' = {<<None, "try_apply_block", b>>}
                          \cup IF operations_received'[b] = validation_passes(b)
                                 THEN {<<None, "AllBlockOperationsReceived", b>>}
                                 ELSE {}

\* An injection that asks for the application of the block whatever is
\* missing from the request and whatever fails.
process_injected_block_regardless(b, n_ops, n_paths, failure) ==
    /\ block_storage' = block_storage \cup {b}
    /\ block_meta_storage' = put_block_header(b)
    /\ block_received_events' = [block_received_events EXCEPT ![b] = @ + 1]
    /\ cm_out' = {<<None, "try_apply_block", b>>}
    /\ UNCHANGED operations_received

\* ChainManager::process_injected_block.  n_ops and n_paths are the lengths
\* of the request's operations and operation_paths, -1 for a missing list;
\* failure names the call that fails, if one does.
process_injected_block(b, n_ops, n_paths, failure) ==
    IF failure = "store_header"
      THEN \* process_injected_block_header fails
           /\ cm_out' = {<<None, "callback_err", b>>}
           /\ UNCHANGED <<block_storage, block_meta_storage,
                          operations_received, block_received_events>>
      ELSE IF b \in block_storage
      THEN \* is_new_block = false: the duplicate is reported to the caller
           /\ cm_out' = {<<None, "callback_err", b>>}
           /\ UNCHANGED <<block_storage, block_meta_storage,
                          operations_received, block_received_events>>
      ELSE /\ block_storage' = block_storage \cup {b}
           /\ block_meta_storage' = put_block_header(b)
           /\ block_received_events' = [block_received_events EXCEPT ![b] = @ + 1]
           /\ IF is_complete(b)
                THEN /\ cm_out' = try_apply_block(b, failure)
                     /\ UNCHANGED operations_received
                ELSE IF \/ n_ops < 0
                        \/ n_paths < 0
                        \/ store_pass_fails(n_ops, n_paths, failure)
                       THEN /\ cm_out' = {<<None, "callback_err", b>>}
                            /\ UNCHANGED operations_received
                       ELSE /\ operations_received' =
                                  [operations_received EXCEPT
                                     ![b] = @ \cup (FirstPasses(n_ops) \cap FirstPasses(n_paths))]
                            /\ cm_out' =
                                  IF n_paths < n_ops
                                    THEN {<<None, "callback_err", b>>}
                                    ELSE try_apply_block(b, failure)
                                         \cup IF operations_received'[b] = validation_passes(b)
                                                THEN {<<None, "AllBlockOperationsReceived", b>>}
                                                ELSE {}

\* ShellChannelMsg::InjectBlock
InjectBlock(b, n_ops, n_paths, failure) ==
    /\ cm_pc = "idle"
    /\ predecessor(b) \in block_storage
    /\ n_ops <= Cardinality(validation_passes(b))
    /\ process_injected_block(b, n_ops, n_paths, failure)
    /\ UNCHANGED <<current_head_remote, peers, queued_block_headers,
                   queued_block_operations, bootstrap_state, cm_pc, cm_msg,
                   notChainManager>>

(***************************************************************************)
(* The shell automaton: rehydration of the current head and the            *)
(* NewCurrentHead notification.                                            *)
(***************************************************************************)

\* Bounds of the automaton's runs: the storage request ids handed out and
\* the CurrentHeadUpdate actions dispatched.
MaxReqId == 2

MaxUpdates == 2

\* An Option<RequestId>.
NoReqId == [some |-> FALSE, id |-> 0]

SomeReqId(i) == [some |-> TRUE, id |-> i]

\* An action of the automaton: its kind, and the request id, the result and
\* the head it carries, if any.
AutomatonAction(type, req_id, result, head) ==
    [type |-> type, req_id |-> req_id, result |-> result, head |-> head]

PlainAction(type) == AutomatonAction(type, NoReqId, None, None)

\* What the automaton has dispatched or sent, in order.
LogEntry(event, block, is_boot, best_level) ==
    [event |-> event, block |-> block, is_bootstrapped |-> is_boot,
     best_remote_level |-> best_level]

\* The store before CurrentHeadRehydrateInit.
NewShellAutomaton ==
    [current_head |-> [state |-> "Idle", storage_req_id |-> 0, head |-> None],
     next_req_id |-> 0,
     is_bootstrapped |-> FALSE,
     best_remote_level |-> 0,
     queue |-> <<>>,
     log |-> <<>>]

\* CurrentHeadState::get: the head of a rehydrated state.
current_head_get(au) ==
    IF au.current_head.state = "Rehydrated" THEN au.current_head.head ELSE None

\* The enabling condition of an action: the store drops a dispatched action
\* that is not enabled, with its reducer and its effects.
is_enabled(au, a) ==
    CASE a.type = "CurrentHeadRehydrateInit" -> au.current_head.state = "Idle"
      [] a.type = "CurrentHeadRehydratePending" -> au.current_head.state = "RehydrateInit"
      [] a.type = "CurrentHeadRehydrateSuccess" -> au.current_head.state = "RehydratePending"
      [] a.type = "CurrentHeadRehydrateError" -> au.current_head.state = "RehydratePending"
      [] a.type = "CurrentHeadRehydrated" -> au.current_head.state = "RehydrateSuccess"
      [] OTHER -> TRUE

\* The reducers of the actions the current head's effects react to or
\* dispatch.
reducer(au, a) ==
    CASE a.type = "CurrentHeadRehydrateInit" ->
           [au EXCEPT !.current_head.state = "RehydrateInit"]
      [] a.type = "StorageRequestCreate" ->
           [au EXCEPT !.next_req_id = @ + 1]
      [] a.type = "CurrentHeadRehydratePending" ->
           [au EXCEPT !.current_head.state = "RehydratePending",
                      !.current_head.storage_req_id = a.req_id.id]
      [] a.type = "CurrentHeadRehydrateSuccess" ->
           [au EXCEPT !.current_head.state = "RehydrateSuccess",
                      !.current_head.head = a.head]
      [] a.type = "CurrentHeadRehydrateError" ->
           [au EXCEPT !.current_head.state = "RehydrateError"]
      [] a.type = "CurrentHeadRehydrated" ->
           [au EXCEPT !.current_head.state = "Rehydrated",
                      !.log = Append(@, LogEntry("CurrentHeadRehydrated",
                                                 au.current_head.head, FALSE, 0))]
      [] a.type = "CurrentHeadUpdate" ->
           LET updated == IF au.current_head.state = "Rehydrated"
                            THEN [au EXCEPT !.current_head.head = a.head]
                            ELSE au
           IN [updated EXCEPT !.log = Append(@, LogEntry("CurrentHeadUpdate",
                                                         current_head_get(updated),
                                                         FALSE, 0))]
      [] a.type = "BootstrapInit" ->
           [au EXCEPT !.log = Append(@, LogEntry("BootstrapInit", None, FALSE, 0))]
      [] a.type = "BootstrapStateChanged" ->
           [au EXCEPT !.is_bootstrapped = a.result,
                      !.best_remote_level = a.req_id.id]
      [] OTHER -> au

\* A notification that is sent whether a current head is set or not.
notify_new_current_head_always(au) ==
    [au EXCEPT !.log = Append(@, LogEntry("NewCurrentHead", au.current_head.head,
                                          au.is_bootstrapped, au.best_remote_level))]

\* notify_new_current_head: nothing without a current head, else the
\* NewCurrentHead notification goes to the actors.
notify_new_current_head(au) ==
    IF current_head_get(au) = None
      THEN au
      ELSE [au EXCEPT !.log = Append(@, LogEntry("NewCurrentHead",
                                                 current_head_get(au),
                                                 au.is_bootstrapped,
                                                 au.best_remote_level))]

\* The dispatches of an effect: they are handled, each with what it
\* dispatches itself, before the rest of what is under way.
dispatch_all(au, actions) == [au EXCEPT !.queue = actions \o @]

\* The StorageResponseReceived arm without the comparison of request ids.
storage_response_any_id(au, a) ==
    IF au.current_head.state # "RehydratePending"
      THEN au
      ELSE CASE a.result = "CurrentHeadGetSuccess" ->
                  dispatch_all(au, <<AutomatonAction("CurrentHeadRehydrateSuccess",
                                                     NoReqId, None, a.head)>>)
             [] a.result = "CurrentHeadGetError" ->
                  dispatch_all(au, <<PlainAction("CurrentHeadRehydrateError")>>)
             [] OTHER -> au

\* The StorageResponseReceived arm of current_head_effects.
storage_response_received(au, a) ==
    IF au.current_head.state # "RehydratePending"
      THEN au
      ELSE IF ~(a.req_id.some /\ a.req_id.id = au.current_head.storage_req_id)
             THEN au
             ELSE CASE a.result = "CurrentHeadGetSuccess" ->
                         dispatch_all(au, <<AutomatonAction("CurrentHeadRehydrateSuccess",
                                                            NoReqId, None, a.head)>>)
                    [] a.result = "CurrentHeadGetError" ->
                         dispatch_all(au, <<PlainAction("CurrentHeadRehydrateError")>>)
                    [] OTHER -> au

\* current_head_effects, on the state the reducer has left.  The
\* notification of CurrentHeadRehydrated follows the dispatch of
\* BootstrapInit and all that it brings about.
current_head_effects(au, a) ==
    CASE a.type = "CurrentHeadRehydrateInit" ->
           dispatch_all(au, <<PlainAction("StorageRequestCreate"),
                              AutomatonAction("CurrentHeadRehydratePending",
                                              SomeReqId(au.next_req_id), None, None)>>)
      [] a.type = "StorageResponseReceived" -> storage_response_received(au, a)
      [] a.type = "CurrentHeadRehydrateSuccess" ->
           dispatch_all(au, <<PlainAction("CurrentHeadRehydrated")>>)
      [] a.type = "CurrentHeadRehydrated" ->
           dispatch_all(au, <<PlainAction("BootstrapInit"),
                              PlainAction("notify_new_current_head")>>)
      [] a.type = "CurrentHeadUpdate" -> notify_new_current_head(au)
      [] OTHER -> au

\* Store::dispatch: an enabled action goes through its reducer, then through
\* the effects.
dispatch(au, a) ==
    IF is_enabled(au, a) THEN current_head_effects(reducer(au, a), a) ELSE au

\* What the automaton leaves alone.
notShellAutomaton == <<block_storage, block_meta_storage, operations_received,
                       feederVars, current_head_local, cmFields, cm_out,
                       post_stop_pc>>

\* An action is dispatched to the store from outside, none being under way.
AutomatonDispatch(a) ==
    /\ shell_automaton.queue = <<>>
    /\ shell_automaton' = dispatch(shell_automaton, a)
    /\ UNCHANGED notShellAutomaton

\* The next of the dispatches under way is handled.
AutomatonNested ==
    /\ shell_automaton.queue # <<>>
    /\ LET a == Head(shell_automaton.queue)
           au == [shell_automaton EXCEPT !.queue = Tail(@)]
       IN shell_automaton' = IF a.type = "notify_new_current_head"
                               THEN notify_new_current_head(au)
                               ELSE dispatch(au, a)
    /\ UNCHANGED notShellAutomaton

\* The CurrentHeadUpdate actions handled so far.
Updates(au) == Cardinality({i \in DOMAIN au.log : au.log[i].event = "CurrentHeadUpdate"})

\* The heads a storage response or an update may carry.
AutomatonHeads == {"H1", "H2A"}

\* The storage responses the store may receive.
StorageResponses ==
    {AutomatonAction("StorageResponseReceived", req_id, result,
                     IF result = "CurrentHeadGetSuccess" THEN "H1" ELSE None) :
       req_id \in {NoReqId} \cup {SomeReqId(i) : i \in 0..MaxReqId},
       result \in {"CurrentHeadGetSuccess", "CurrentHeadGetError", "BlockHeaderGetSuccess"}}

\* The shell automaton from its start: rehydration is initiated, other
\* requestors create storage requests, responses arrive with any request id
\* or none, the head is updated, and the bootstrap state changes.
NextAutomaton ==
    \/ /\ shell_automaton.next_req_id < MaxReqId
       /\ AutomatonDispatch(PlainAction("CurrentHeadRehydrateInit"))
    \/ /\ shell_automaton.next_req_id < MaxReqId
       /\ AutomatonDispatch(PlainAction("StorageRequestCreate"))
    \/ \E a \in StorageResponses : AutomatonDispatch(a)
    \/ /\ Updates(shell_automaton) < MaxUpdates
       /\ \E head \in AutomatonHeads :
             AutomatonDispatch(AutomatonAction("CurrentHeadUpdate", NoReqId, None, head))
    \/ \E is_boot \in BOOLEAN : \E best_level \in {0, 2} :
          AutomatonDispatch(AutomatonAction("BootstrapStateChanged",
                                            SomeReqId(best_level), is_boot, None))
    \/ AutomatonNested

(***************************************************************************)
(* Specifications.                                                         *)
(***************************************************************************)

\* The configuration of a node with its mempool on, not in sandbox mode, and
\* the mempool state before the mempool has a head.
InitConfig(c) ==
    /\ config = c
    /\ current_mempool_state = [head |-> None, ops |-> {}]
    /\ now = 0
    /\ peer_state = NewPeerState(0)
    /\ shell_automaton = NewShellAutomaton

DefaultConfig == [p2p_disable_mempool |-> FALSE, is_sandbox |-> FALSE]

Init ==
    /\ InitStores(<<"G", "H1">>)
    /\ InitFeeder
    /\ InitChainManager
    /\ InitConfig(DefaultConfig)

InitAnyChain ==
    /\ \E chain \in PersistedChains : InitStores(chain)
    /\ InitFeeder
    /\ InitChainManager
    /\ InitConfig(DefaultConfig)

FeederThread ==
    \/ FeederActorLoop
    \/ FeederLoadMeta
    \/ FeederGetBlock
    \/ FeederIsComplete
    \/ FeederApplyOk
    \/ FeederPutMeta
    \/ FeederPublish
    \/ FeederParkSpurious

\* The handlers that bring headers and operations in, for the peers of P,
\* each supplying the blocks of Known[p].
Download(P, Known) ==
    \/ \E p \in P : PeerBootstrapped(p)
    \/ \E p \in P : \E head \in Known[p] : ReceiveCurrentBranch(p, head)
    \/ HandleAcceptedHead
    \/ \E p \in P : \E b \in Known[p] : ReceiveBlockHeader(p, b)
    \/ \E p \in P : \E b \in Known[p] : \E pass \in validation_passes(b) :
          ReceiveOperationsForBlocks(p, b, pass)

\* The applier thread, with failing applies and storage calls, fed by two
\* peers that know the same blocks, from any persisted chain.
NextFeeder ==
    \/ FeederThread
    \/ FeederApplyErr
    \/ FeederStorageErr
    \/ Download(Peers, NearBlocks)

SpecFeeder == InitAnyChain /\ [][NextFeeder]_vars

\* The steps of the applier thread that the scheduler of threads makes it
\* take: every step but a spurious return of thread::park().
FeederSteps ==
    \/ FeederActorLoop
    \/ FeederLoadMeta
    \/ FeederGetBlock
    \/ FeederIsComplete
    \/ FeederApplyOk
    \/ FeederApplyErr
    \/ FeederStorageErr
    \/ FeederPutMeta
    \/ FeederPublish
    \/ FeederPark

\* The applier thread and the ChainFeeder actor, which wakes the thread and
\* is stopped at any moment, while one peer supplies blocks.
NextStop ==
    \/ FeederSteps
    \/ FeederParkSpurious
    \/ ReceiveFeedChainToProtocol
    \/ PostStop
    \/ PostStopUnpark
    \/ PostStopJoin
    \/ Download({"p1"}, NearBlocks)

\* The thread is scheduled whenever it can take a step, and post_stop runs
\* on once it is called.
SpecStop ==
    /\ Init
    /\ [][NextStop]_vars
    /\ WF_vars(FeederSteps)
    /\ WF_vars(PostStopUnpark \/ PostStopJoin)

\* The ChainManager with two peers on two forks, and the applier thread.
Next ==
    \/ FeederThread
    \/ Download(Peers, PeerBlocks)
    \/ \E p \in Peers : PeerRemoved(p)
    \/ \E p \in Peers : \E head \in PeerBlocks[p] : ReceiveCurrentHead(p, head)
    \/ \E p \in Peers : ReceivePeerBranchSynchronizationDone(p)
    \/ AdvertiseToP2pNewCurrentHead(NewCurrentHead)

Spec == Init /\ [][Next]_vars

\* Every handler of the ChainManager, and the applier thread; the peers know
\* one block past the persisted chain and a block of the other fork is
\* injected.
NextShell ==
    \/ FeederThread
    \/ Download(Peers, NearBlocks)
    \/ \E p \in Peers : PeerRemoved(p)
    \/ \E p \in Peers : \E head \in NearBlocks[p] : ReceiveCurrentHead(p, head)
    \/ \E p \in Peers : ReceivePeerBranchSynchronizationDone(p)
    \/ AdvertiseToP2pNewCurrentHead(NewCurrentHead)
    \/ \E p \in Peers, kind \in {"CurrentBranch", "CurrentHead"}, same \in BOOLEAN :
          ReceiveGetCurrent(p, kind, same)
    \/ AskPeersAboutCurrentHead
    \/ \E stalled \in SUBSET Peers : DisconnectStalledPeers(stalled)
    \/ \E n_ops \in {-1, 1}, n_paths \in {-1, 0, 1} :
          InjectBlock("H2B", n_ops, n_paths, "none")

SpecShell == Init /\ [][NextShell]_vars

\* The ChainManager alone with two peers on two forks: the peers come, are
\* asked for their heads, answer what was requested and what was not, and
\* are stopped or go.
NextPeers ==
    \/ Download(Peers, PeerBlocks)
    \/ \E p \in Peers : PeerRemoved(p)
    \/ AskPeersAboutCurrentHead
    \/ \E stalled \in SUBSET Peers : DisconnectStalledPeers(stalled)

SpecPeers == Init /\ [][NextPeers]_vars

\* The same, with the actor handling a message of its mailbox whenever one
\* can be handled.
SpecPeersFair == Init /\ [][NextPeers]_vars /\ WF_vars(NextPeers)

\* A node that holds genesis alone.
InitGenesis ==
    /\ InitStores(<<"G">>)
    /\ InitFeeder
    /\ InitChainManager
    /\ InitConfig(DefaultConfig)

\* The ChainManager of a node that holds genesis alone, with two peers on two
\* forks: the branch of p1 is longer than a pipeline's limit.
NextPipeline ==
    \/ Download(Peers, PeerBlocks)
    \/ \E p \in Peers : PeerRemoved(p)

SpecPipeline == InitGenesis /\ [][NextPipeline]_vars

\* The blocks injected and the lengths of the lists they are injected with.
Injected == {"H2A", "H2B"}

InjectedLengths == {-1, 0, 1}

\* The ChainManager with one peer that supplies H1 and H2A, and a baker that
\* injects H2A and H2B, with or without their operations, again and again.
NextInject ==
    \/ Download({"p1"}, NearBlocks)
    \/ \E b \in Injected, n_ops \in InjectedLengths, n_paths \in InjectedLengths :
          \E failure \in InjectionFailures : InjectBlock(b, n_ops, n_paths, failure)

SpecInject == Init /\ [][NextInject]_vars

\* The cold start of a node that holds genesis alone: one peer, whose branch
\* is three blocks long, and the applier thread.
NextColdStart ==
    \/ FeederThread
    \/ Download({"p1"}, PeerBlocks)

SpecColdStart == InitGenesis /\ [][NextColdStart]_vars

\* The node under any configuration.
InitAnyConfig ==
    /\ InitStores(<<"G", "H1">>)
    /\ InitFeeder
    /\ InitChainManager
    /\ \E c \in Configs : InitConfig(c)

\* The handlers that send CurrentHead messages, under any configuration, with
\* the peers coming, reporting and going and the mempool state changing.
NextMempool ==
    \/ \E p \in Peers : PeerBootstrapped(p)
    \/ \E p \in Peers : PeerRemoved(p)
    \/ \E p \in Peers : ReceivePeerBranchSynchronizationDone(p)
    \/ \E b \in {"H1", "H2A"} : AdvertiseToP2pNewCurrentHead(b)
    \/ \E b \in {"H1", "H2A"}, mempool \in Mempools : AdvertiseToP2pNewMempool(b, mempool)
    \/ \E p \in Peers, same \in BOOLEAN : ReceiveGetCurrent(p, "CurrentHead", same)
    \/ \E head \in {"G", "H1"}, ops \in Mempools : MempoolStateChanged(head, ops)

SpecMempool == InitAnyConfig /\ [][NextMempool]_vars

\* A node in sandbox mode or not.
InitScan ==
    /\ InitStores(<<"G", "H1">>)
    /\ InitFeeder
    /\ InitChainManager
    /\ \E c \in Configs : ~c.p2p_disable_mempool /\ InitConfig(c)

\* The timers of one peer of a node in sandbox mode or not, and the scan.
\* The peer advertises heads of the levels 0 and 2; the local head of the
\* node is at level 1.
NextScan ==
    \/ Tick
    \/ PeerStateNew
    \/ PeerStateCurrentHeadRequested
    \/ \E l \in {0, 2} : PeerStateCurrentHeadReceived(l)
    \/ \E l \in {0, 2} : PeerStateCurrentBranchReceived(l)
    \/ \E pending \in BOOLEAN : PeerStateBlockRequested(pending)
    \/ \E pending \in BOOLEAN : PeerStateBlockOperationsRequested(pending)
    \/ PeerStateMempoolOperationsRequested
    \/ \E op \in MempoolOperations : \E accepted \in BOOLEAN :
          PeerStateOperationReceived(op, accepted)
    \/ DisconnectStalledPeer

SpecScan == InitScan /\ [][NextScan]_vars

(***************************************************************************)
(* Properties of the applier thread, under SpecFeeder.                     *)
(***************************************************************************)

\* The positions of x in the sequence s.
Positions(s, x) == {i \in DOMAIN s : s[i] = x}

\* The blocks whose meta record carries the applied flag.
Applied == {b \in Blocks : block_meta_storage[b].present /\ block_meta_storage[b].is_applied}

\* C1: every applied block whose predecessor is not genesis has an applied
\* predecessor, BlockApplied of the predecessor has been published, and it
\* comes strictly before BlockApplied of the block.
C1_CausalOrder ==
    \A b \in Applied :
       (b # Genesis /\ predecessor(b) # Genesis) =>
          /\ predecessor(b) \in Applied
          /\ Positions(block_applied_events, predecessor(b)) # {}
          /\ \A j \in Positions(block_applied_events, b) :
                \E i \in Positions(block_applied_events, predecessor(b)) : i < j

\* C1 witness: started at genesis, the thread has applied H1 and then H2A,
\* and has published both.
C1_Witness ==
    /\ tezos_init_head = Genesis
    /\ block_applied_events = <<"H1", "H2A">>
    /\ Positions(apply_log, <<"H2A", "ok">>) # {}

\* C2: apply_block is invoked on the cursor, and the applied flag of a block
\* is set, only when the header of the block is stored and all its validation
\* passes are; when the header or a pass is missing the thread parks, the
\* meta store and the record of applies unchanged.
C2_ApplyOnlyComplete ==
    [][ /\ apply_log' # apply_log =>
             /\ current_head_hash \in block_storage
             /\ operations_received[current_head_hash] = validation_passes(current_head_hash)
        /\ \A b \in Blocks :
             (~block_meta_storage[b].is_applied /\ block_meta_storage'[b].is_applied) =>
                /\ b = current_head_hash
                /\ b \in block_storage
                /\ operations_received[b] = validation_passes(b)
        /\ ( /\ f_pc' # f_pc
             /\ \/ f_pc = "get_block" /\ current_head_hash \notin block_storage
                \/ /\ f_pc = "is_complete"
                   /\ operations_received[current_head_hash] # validation_passes(current_head_hash) )
           => ( /\ f_pc' \in {"park", "actor"}
                /\ UNCHANGED <<block_meta_storage, apply_log, block_applied_events>> )
      ]_vars

\* C2 witness: the thread has parked on H2A, whose header is stored and whose
\* operations are not, after it applied H1.
C2_Witness ==
    /\ f_pc = "park"
    /\ current_head_hash = "H2A"
    /\ "H2A" \in block_storage
    /\ operations_received["H2A"] # validation_passes("H2A")
    /\ ~block_meta_storage["H2A"].is_applied
    /\ apply_log = <<<<"H1", "ok">>>>

C4_AppliedAtMostOnce ==
    /\ [](\A b \in Blocks : Cardinality(Positions(block_applied_events, b)) <= 1)
    /\ [][ /\ apply_log' # apply_log => current_head_hash \notin Applied
           /\ Applied \subseteq {b \in Blocks : block_meta_storage'[b].is_applied}
         ]_vars

\* C4 witness: H1 has been applied and published, an error has restarted the
\* feed loop at genesis, and the cursor is on H1 again.
C4_Witness ==
    /\ tezos_init_head = Genesis
    /\ block_applied_events = <<"H1">>
    /\ errors > 0
    /\ f_pc = "loop"
    /\ current_head_hash = "H1"
    /\ "H1" \in Applied
    /\ block_received_events["H1"] = 1

\* The blocks on which apply_block has returned Err.
Failed == {b \in Blocks : Positions(apply_log, <<b, "err">>) # {}}

\* C5, as the specification states it: after apply_block has failed on a block
\* it is invoked on that block again only if a header outside the branch of
\* the block has arrived.
C5_HaltsOnFailedBranch ==
    \A b \in Failed :
       (\E i, j \in DOMAIN apply_log :
           i < j /\ apply_log[i] = <<b, "err">> /\ apply_log[j][1] = b)
       => block_storage \ (Ancestors(b) \cup {Genesis}) # {}

\* C5, amended: a failed apply_block leaves the meta store and the published
\* events unchanged and sends the thread back to the actor loop, which
\* restarts the feed loop at the initial cursor; no block is marked applied
\* or published unless its latest apply_block returned Ok.
C5_FailureRestartsFeedLoop ==
    /\ [][ /\ ( apply_log' # apply_log /\ apply_log'[Len(apply_log')][2] = "err" ) =>
                /\ f_pc' = "actor"
                /\ ~block_meta_storage'[current_head_hash].is_applied
                /\ UNCHANGED <<block_meta_storage, block_applied_events, current_head_local>>
           /\ ( f_pc = "actor" /\ f_pc' = "loop" ) => current_head_hash' = tezos_init_head
         ]_vars
    /\ [](\A b \in Failed :
            LET last == CHOOSE i \in DOMAIN apply_log :
                           /\ apply_log[i][1] = b
                           /\ \A j \in DOMAIN apply_log : apply_log[j][1] = b => j <= i
            IN apply_log[last][2] = "err" => b \notin Applied)

\* C5 witness: apply_block failed on H2A and was invoked on H2A again, no
\* header but those of the branch of H2A ever stored.
C5_Witness ==
    /\ Len(apply_log) >= 2
    /\ apply_log[Len(apply_log) - 1] = <<"H2A", "err">>
    /\ apply_log[Len(apply_log)][1] = "H2A"
    /\ block_storage = {Genesis, "H1", "H2A"}

(***************************************************************************)
(* Properties of the ChainManager.                                         *)
(***************************************************************************)

\* C6: a step that changes the local head slot or the applied flag of a meta
\* record is the put of the applier thread, for its cursor block; no handler
\* of the ChainManager changes either.  (Under SpecShell.)
C6_OnlyFeederCommits ==
    [][ ( \/ current_head_local' # current_head_local
          \/ \E b \in Blocks :
                block_meta_storage'[b].is_applied # block_meta_storage[b].is_applied )
        => ( /\ f_pc = "put"
             /\ f_pc' = "publish"
             /\ UNCHANGED cmState
             /\ current_head_local' = current_head_hash
             /\ \A b \in Blocks \ {current_head_hash} :
                   block_meta_storage'[b].is_applied = block_meta_storage[b].is_applied )
      ]_vars

\* C6 witness: the thread has applied H2A and made it the local head, while a
\* block of the other fork was injected and a peer is asked for its branch.
C6_Witness ==
    /\ current_head_local = "H2A"
    /\ "H2A" \in Applied
    /\ "H2B" \in block_storage
    /\ "H2B" \notin Applied
    /\ \E p \in Peers : <<p, "GetCurrentBranch", get_chain_id>> \in cm_out

\* C7: the level of the remote head never decreases, and the write of
\* update_remote_head for a header whose level is not above the level of the
\* remote head leaves the remote head as it is.
C7_RemoteLevelMonotone ==
    [][ /\ head_level(current_head_remote') >= head_level(current_head_remote)
        /\ ( /\ cm_pc = "update_remote_head"
             /\ current_head_remote # None
             /\ level(cm_msg.head) <= level(current_head_remote) )
           => current_head_remote' = current_head_remote
      ]_vars

\* C7 witness: the remote head is H3A, of level 3, and the level check has
\* turned down the accepted branch head H2B, of level 2.
C7_Witness ==
    /\ current_head_remote = "H3A"
    /\ cm_pc = "update_remote_head"
    /\ cm_msg.head = "H2B"
    /\ ~cm_msg.need

\* C8, as the specification states it: update_remote_head replaces the remote
\* head exactly when the fitness of the header is above the fitness of the
\* remote head (or there is no remote head).
C8_ReplacesIffFitnessDominates ==
    [][ (cm_pc = "update_remote_head" /\ cm_pc' = "idle") =>
          current_head_remote' =
             IF \/ current_head_remote = None
                \/ fitness(cm_msg.head) > fitness(current_head_remote)
               THEN cm_msg.head
               ELSE current_head_remote
      ]_vars

\* C8, amended: update_remote_head replaces the remote head exactly when the
\* level of the header is above the level of the remote head (or there is no
\* remote head); the fitness is not looked at.
C8_ReplacesIffLevelHigher ==
    [][ (cm_pc = "update_remote_head" /\ cm_pc' = "idle") =>
          current_head_remote' =
             IF \/ current_head_remote = None
                \/ level(cm_msg.head) > level(current_head_remote)
               THEN cm_msg.head
               ELSE current_head_remote
      ]_vars

\* C8 witness: the remote head is H2A, of fitness 40, and the level check has
\* turned down H2B, of fitness 50 and of the same level.
C8_Witness ==
    /\ current_head_remote = "H2A"
    /\ cm_pc = "update_remote_head"
    /\ cm_msg.head = "H2B"
    /\ ~cm_msg.need

\* The messages CurrentHead of the latest step name only the head h.
AdvertisedOnly(h) == \A m \in cm_out : m[2] = "CurrentHead" => m[3] = h

\* C9, as the specification states it: once both sibling headers are stored
\* with their operations and a block of their level is the local head, the block applied is H2B, of
\* fitness 50, the remote head is not H2A, and only H2B is advertised.
C9_HigherFitnessSiblingWins ==
    ( /\ {"H2A", "H2B"} \subseteq block_storage
      /\ \A b \in {"H2A", "H2B"} : operations_received[b] = validation_passes(b)
      /\ level(current_head_local) >= 2 )
    => ( /\ "H2B" \in Applied
         /\ "H2A" \notin Applied
         /\ current_head_remote # "H2A"
         /\ AdvertisedOnly("H2B") )

\* C9, amended: of two sibling heads of the same level the one recorded first
\* as the successor of their parent is the one applied, whatever its fitness;
\* at most one of them is applied; a remote head that is one of them is not
\* replaced by the other; the head advertised is the local head.
C9_FirstRecordedSiblingWins ==
    /\ [](\A b \in {"H2A", "H2B"} :
            b \in Applied => block_meta_storage["H1"].successor = b)
    /\ [](~({"H2A", "H2B"} \subseteq Applied))
    /\ [](AdvertisedOnly(current_head_local))
    /\ [][ /\ current_head_remote = "H2A" => current_head_remote' # "H2B"
           /\ current_head_remote = "H2B" => current_head_remote' # "H2A"
         ]_vars

\* C9 witness: both sibling headers are stored with their operations, H2A
\* came first, was applied and is the head advertised to the two peers, and
\* the remote head is H2A.
C9_Witness ==
    /\ {"H2A", "H2B"} \subseteq block_storage
    /\ operations_received["H2B"] = validation_passes("H2B")
    /\ "H2A" \in Applied
    /\ current_head_local = "H2A"
    /\ current_head_remote = "H2A"
    /\ cm_out = {<<q, "CurrentHead", "H2A", {}>> : q \in Peers}

\* C10: once is_bootstrapped holds, no step changes the bootstrap state, and
\* is_bootstrapped holds on.
C10_BootstrappedForGood ==
    [][ is_bootstrapped =>
          /\ bootstrap_state' = bootstrap_state
          /\ Cardinality(bootstrap_state'.done) >= bootstrap_threshold_peers
          /\ bootstrap_state'.level_ok
      ]_vars

\* C10 witness: the node is bootstrapped, and since then the remote head has
\* moved further ahead of the local head than the level threshold and a peer
\* has left.
C10_Witness ==
    /\ Cardinality(bootstrap_state.done) >= bootstrap_threshold_peers
    /\ bootstrap_state.level_ok
    /\ head_level(current_head_local) < head_level(current_head_remote) - bootstrap_level_threshold
    /\ Cardinality(peers) < bootstrap_threshold_peers

\* C11: is_bootstrapped becomes true only by a report that leaves at least
\* bootstrap_threshold_peers distinct peers reported, with the level of the
\* local head at least the level of the remote head less the threshold; the
\* peers counted are registered when they report, and a peer that has
\* reported is counted once.
C11_BootstrapNeedsDistinctPeers ==
    [][ /\ ( ~( /\ Cardinality(bootstrap_state.done) >= bootstrap_threshold_peers
                /\ bootstrap_state.level_ok )
             /\ Cardinality(bootstrap_state'.done) >= bootstrap_threshold_peers
             /\ bootstrap_state'.level_ok )
           => /\ head_level(current_head_local)
                    >= head_level(current_head_remote) - bootstrap_level_threshold
              /\ \E S \in SUBSET Peers :
                    /\ Cardinality(S) >= bootstrap_threshold_peers
                    /\ S \subseteq bootstrap_state'.done
        /\ (bootstrap_state'.done \ bootstrap_state.done) \subseteq peers
        /\ Cardinality(bootstrap_state'.done) <= Cardinality(bootstrap_state.done) + 1
      ]_vars

\* C11 witness: the two registered peers have reported, the local head is
\* within the threshold of the remote head, and the node is bootstrapped.
C11_Witness ==
    /\ bootstrap_state.done = Peers
    /\ bootstrap_state.level_ok
    /\ peers = Peers
    /\ current_head_remote # None
    /\ head_level(current_head_local)
          >= head_level(current_head_remote) - bootstrap_level_threshold

(***************************************************************************)
(* Properties of the CurrentHead messages sent, under SpecMempool.         *)
(***************************************************************************)

\* C12: while is_bootstrapped is false no advertised CurrentHead carries
\* mempool content: every message an advertisement of a new mempool tells a
\* peer before the node is bootstrapped has an empty mempool.
C12_NoMempoolBeforeBootstrapped ==
    [][ \A b \in Blocks, mempool \in Mempools :
          (AdvertiseToP2pNewMempool(b, mempool) /\ ~is_bootstrapped)
             => \A m \in cm_out' : m[2] = "CurrentHead" => m[4] = {}
      ]_vars

\* C13: when p2p_disable_mempool is true every CurrentHead message the node
\* sends, an advertisement or a reply to GetCurrentHead, carries an empty
\* mempool, whatever the peer's mempool_enabled and the mempool state.
C13_DisabledMempoolNeverSent ==
    config.p2p_disable_mempool
       => \A m \in cm_out : m[2] = "CurrentHead" => m[4] = {}

\* p1, whose mempool is enabled, is sent the local head with an empty mempool
\* by a node with p2p_disable_mempool set whose mempool state holds an
\* operation for that head.
C13_Witness ==
    /\ config.p2p_disable_mempool
    /\ mempool_enabled("p1")
    /\ current_mempool_state.head = current_head_local
    /\ current_mempool_state.ops # {}
    /\ cm_out = {<<"p1", "CurrentHead", current_head_local, {}>>}

(***************************************************************************)
(* Properties of the responses of peers, under SpecPeers.                  *)
(***************************************************************************)

\* C15: a BlockHeader or an OperationsForBlocks whose key was not requested
\* from the sending peer is discarded: no header and no operations are
\* stored, no meta record changes, and neither BlockReceived nor
\* AllBlockOperationsReceived is published.
C15_UnrequestedResponseDiscarded ==
    [][ \A p \in Peers, b \in Blocks :
          /\ (b \notin queued_block_headers[p] /\ ReceiveBlockHeader(p, b))
                => /\ UNCHANGED <<block_storage, block_meta_storage,
                                  operations_received, block_received_events>>
                   /\ \A m \in cm_out' : m[2] # "AllBlockOperationsReceived"
          /\ \A pass \in ValidationPasses :
                (b \notin queued_block_operations[p] /\ ReceiveOperationsForBlocks(p, b, pass))
                   => /\ UNCHANGED <<block_storage, block_meta_storage,
                                     operations_received, block_received_events>>
                      /\ \A m \in cm_out' : m[2] # "AllBlockOperationsReceived"
      ]_vars

\* p2 is connected and can send the header of H2B, which is neither stored
\* nor requested from it, while p1 has H2A requested; and the latest message
\* published nothing.
C15_Witness ==
    /\ peers = Peers
    /\ "H2B" \notin block_storage
    /\ "H2B" \notin queued_block_headers["p2"]
    /\ "H2A" \in queued_block_headers["p1"]
    /\ block_received_events["H2B"] = 0
    /\ cm_out = {}

\* A BlockHeader or an OperationsForBlocks of p whose key was not requested
\* from p is handled.
UnsolicitedResponse(p) ==
    \/ \E b \in Blocks :
          b \notin queued_block_headers[p] /\ ReceiveBlockHeader(p, b)
    \/ \E b \in Blocks, pass \in ValidationPasses :
          b \notin queued_block_operations[p] /\ ReceiveOperationsForBlocks(p, b, pass)

\* C16: unsolicited responses count against the peer and the third within
\* the window disconnects it, so a peer whose unsolicited responses keep
\* coming is out of the registry again and again: it cannot stay connected
\* for good.
C16_UnsolicitedPeerDisconnected ==
    \A p \in Peers :
       []<><<UnsolicitedResponse(p)>>_vars => []<>(p \notin peers)

\* C18: when the acceptance of a peer's CurrentHead gives a multipass
\* validation error, the step that publishes BlacklistPeer for the peer
\* carries the error as its reason and clears what is pending for the peer,
\* and it neither stores the head advertised, nor changes the remote head,
\* nor schedules a download, nor goes on to handle the head.
C18_BlacklistClearsAndDropsHead ==
    [][ \A m \in cm_out' :
          (m[2] = "BlacklistPeer" /\ cm_pc = "idle")
             => /\ m[3] = "MutlipassValidationError"
                /\ queued_block_headers' =
                      [queued_block_headers EXCEPT ![m[1]] = {}]
                /\ queued_block_operations' =
                      [queued_block_operations EXCEPT ![m[1]] = {}]
                /\ UNCHANGED <<block_storage, block_meta_storage,
                               operations_received, block_received_events,
                               current_head_remote>>
                /\ cm_pc' = "idle"
      ]_vars

\* p1 was blacklisted for a head of higher fitness that it advertised to
\* the bootstrapped node: nothing is requested from it any more and H3A is
\* not stored.
C18_Witness ==
    /\ cm_out = {<<"p1", "BlacklistPeer", "MutlipassValidationError">>}
    /\ is_bootstrapped
    /\ queued_block_headers["p1"] = {}
    /\ queued_block_operations["p1"] = {}
    /\ "H2A" \in block_storage
    /\ "H3A" \notin block_storage

(***************************************************************************)
(* Properties of the scan for stalled peers, under SpecScan.               *)
(***************************************************************************)

\* The scan stops the peer followed.
Stopped(out) == <<WatchedPeer, "stop", None>> \in out

\* A block or block-operations request to the peer has been pending longer
\* than silent_peer_timeout.
BlockRequestOverdue ==
    \/ /\ peer_state.block_request_last.some
       /\ now - peer_state.block_request_last.at > silent_peer_timeout
    \/ /\ peer_state.block_operations_request_last.some
       /\ now - peer_state.block_operations_request_last.at > silent_peer_timeout

\* current_head_request_last is later than current_head_response_last by
\* more than silent_peer_timeout.
CurrentHeadRequestOverdue ==
    peer_state.current_head_request_last - peer_state.current_head_response_last
       > silent_peer_timeout

\* The level the peer advertised has not increased for
\* CURRENT_HEAD_LEVEL_UPDATE_TIMEOUT while the node knows a head of higher
\* level; a peer that advertised no level is below every head.
LevelStalled ==
    /\ now - peer_state.current_head_update_last > CURRENT_HEAD_LEVEL_UPDATE_TIMEOUT
    /\ \/ ~peer_state.current_head_level.some
       \/ head_level(current_head_local) > peer_state.current_head_level.level
       \/ head_level(current_head_remote) > peer_state.current_head_level.level

\* Mempool operations are queued for the peer and it has supplied none for
\* longer than silent_peer_timeout.
MempoolOperationsNotSupplied ==
    /\ peer_state.queued_mempool_operations # {}
    /\ now - peer_state.mempool_operations_response_last > silent_peer_timeout

\* The same, when moreover the latest request of mempool operations is later
\* than the latest response.
MempoolOperationsResponsePending ==
    /\ peer_state.mempool_operations_request_last
          > peer_state.mempool_operations_response_last
    /\ MempoolOperationsNotSupplied

\* C17 as stated: a scan stops the peer, its verdict should_disconnect being
\* true, if and only if a block or block-operations request is overdue, or
\* its current-head request is overdue, or its level is stalled, or mempool
\* operations queued for it have not been supplied within
\* silent_peer_timeout.
C17_StoppedIffTimeout ==
    /\ Stopped(cm_out) => should_disconnect(peer_state, silent_peer_timeout)
    /\ should_disconnect(peer_state, silent_peer_timeout)
          <=> \/ BlockRequestOverdue
              \/ CurrentHeadRequestOverdue
              \/ LevelStalled
              \/ MempoolOperationsNotSupplied

\* C17 amended: the same, the mempool condition holding only when the latest
\* request of mempool operations is later than the latest response.
C17_StoppedIffTimeoutPending ==
    /\ Stopped(cm_out) => should_disconnect(peer_state, silent_peer_timeout)
    /\ should_disconnect(peer_state, silent_peer_timeout)
          <=> \/ BlockRequestOverdue
              \/ CurrentHeadRequestOverdue
              \/ LevelStalled
              \/ MempoolOperationsResponsePending

\* The scan stopped a peer for its mempool operations alone.
C17_Witness ==
    /\ Stopped(cm_out)
    /\ MempoolOperationsResponsePending
    /\ ~BlockRequestOverdue
    /\ ~CurrentHeadRequestOverdue
    /\ ~LevelStalled

(***************************************************************************)
(* Properties of the request pipelines, under SpecPipeline.                *)
(***************************************************************************)

C19_SandboxNeverStops ==
    config.is_sandbox => ~Stopped(cm_out)

(***************************************************************************)
(* The requests of a peer that the scan stopped, under SpecShell.          *)
(***************************************************************************)

\* C20: when the scan has stopped a peer that has block requests outstanding
\* and the peer goes, each of these requests is handed to another connected
\* peer, if there is one, unless the block has arrived meanwhile.
C20_SilentPeerRequestReassigned ==
    [][ \A p \in Peers :
          ( /\ <<p, "stop", None>> \in cm_out
            /\ p \in peers
            /\ p \notin peers'
            /\ peers' # {} )
             => \A b \in queued_block_headers[p] :
                   \/ b \in block_storage'
                   \/ \E q \in peers' : b \in queued_block_headers'[q]
      ]_vars

(***************************************************************************)
(* The registry of peers, under Spec, where nothing but the removal of a   *)
(* peer stops its PeerBranchBootstrapper.                                  *)
(***************************************************************************)

\* C21: the step that removes a peer from the registry, for PeerStalled or for
\* ActorTerminated, leaves no request queued for the peer and, when the
\* PeerState of the peer refers to a PeerBranchBootstrapper, stops it.
C21_RemovalCancelsAndStopsBootstrapper ==
    [][ \A p \in Peers :
          (p \in peers /\ p \notin peers')
             => /\ queued_block_headers'[p] = {}
                /\ queued_block_operations'[p] = {}
                /\ peer_branch_bootstrapper[p]
                      => <<p, "stop_bootstrapper", None>> \in cm_out'
      ]_vars

\* C22: the step that enters a peer in the registry, for PeerBootstrapped,
\* gives it a PeerState with empty pipelines and no bootstrapper, and sends
\* this peer one GetCurrentBranch with the chain id of the node, and sends
\* nothing else.
C22_NewPeerAskedForBranch ==
    [][ \A p \in Peers :
          (p \notin peers /\ p \in peers')
             => /\ cm_out' = {<<p, "GetCurrentBranch", get_chain_id>>}
                /\ peers' = peers \cup {p}
                /\ queued_block_headers'[p] = {}
                /\ queued_block_operations'[p] = {}
                /\ ~peer_branch_bootstrapper'[p]
      ]_vars

\* p2 has just joined p1, which has requests in flight, and was asked for
\* its branch.
C22_Witness ==
    /\ peers = {"p1", "p2"}
    /\ cm_out = {<<"p2", "GetCurrentBranch", get_chain_id>>}
    /\ queued_block_headers["p1"] # {}
    /\ queued_block_headers["p2"] = {}
    /\ ~peer_branch_bootstrapper["p2"]

(***************************************************************************)
(* The shutdown of the applier thread, under SpecStop.                     *)
(***************************************************************************)

\* An apply_block is called: the thread comes to the call.
ApplyStarts == f_pc # "apply" /\ f_pc' = "apply"

\* C23: once post_stop has cleared the run flag and unparked the thread, the
\* thread starts no apply_block any more (it may complete the one in
\* progress), and the thread exits, so that the join of post_stop returns.
C23_NoApplyAfterStop ==
    /\ [][(post_stop_pc \in {"join", "done"}) => ~ApplyStarts]_vars
    /\ (post_stop_pc # "none") ~> (post_stop_pc = "done")

\* C23, amended: once post_stop has cleared the run flag the thread begins
\* no iteration of its loop any more: it may call apply_block only in the
\* iteration it is in, having read the flag before, and after that call no
\* other; and the thread exits, so that the join of post_stop returns,
\* wherever the thread is when it is unparked.
C23_StopEndsCurrentIteration ==
    /\ [][ ~apply_block_run =>
             /\ ApplyStarts => f_pc = "is_complete"
             /\ f_pc' = "get_block" => f_pc = "get_block"
             /\ f_pc' = "is_complete" => f_pc \in {"get_block", "is_complete"}
       ]_vars
    /\ (post_stop_pc # "none") ~> (post_stop_pc = "done")

\* post_stop has returned from the join, the thread having applied a block
\* and exited.
C23_Witness ==
    /\ post_stop_pc = "done"
    /\ f_pc = "exited"
    /\ ~apply_block_run
    /\ Len(apply_log) > 0

(***************************************************************************)
(* The cold start with one peer, under SpecColdStart.                      *)
(***************************************************************************)

\* The applier thread is parked on an applied block whose record names no
\* successor, while a block on top of it is stored.
Stalled ==
    /\ f_pc = "park"
    /\ block_meta_storage[current_head_hash].is_applied
    /\ block_meta_storage[current_head_hash].successor = None
    /\ \E b \in block_storage \ {Genesis} : predecessor(b) = current_head_hash

C25_InjectedOnceAppliedOnce ==
    [][ \A b \in Injected, n_ops \in InjectedLengths, n_paths \in InjectedLengths :
        \A failure \in InjectionFailures :
          InjectBlock(b, n_ops, n_paths, failure) =>
             IF b \in block_storage
               THEN /\ cm_out' = {<<None, "callback_err", b>>}
                    /\ UNCHANGED <<block_storage, block_meta_storage,
                                   operations_received, block_received_events>>
               ELSE (n_ops = 1 /\ n_paths = 1 /\ failure = "none") =>
                      /\ b \in block_storage'
                      /\ block_received_events'[b] = 1
                      /\ operations_received'[b] = validation_passes(b)
                      /\ <<None, "try_apply_block", b>> \in cm_out'
                      /\ <<None, "callback_err", b>> \notin cm_out'
      ]_vars

\* H2B was injected with its operations, and injected again: the second
\* injection was answered with an error.
C25_Witness ==
    /\ cm_out = {<<None, "callback_err", "H2B">>}
    /\ "H2B" \in block_storage
    /\ is_complete("H2B")
    /\ block_received_events["H2B"] = 1

\* The ChainManager alone with two peers that advertise heads with
\* mempools: a peer may advertise any block; p1 supplies the headers asked of
\* it and may go.
NextHeads ==
    \/ \E p \in Peers : PeerBootstrapped(p)
    \/ PeerRemoved("p1")
    \/ \E p \in Peers : ReceivePeerBranchSynchronizationDone(p)
    \/ \E p \in Peers : \E head \in Blocks :
          \E current_mempool \in SUBSET MempoolOperations :
             ReceiveCurrentHeadMessage(p, head, current_mempool)
    \/ HandleAcceptedHead
    \/ \E b \in Blocks : ReceiveBlockHeader("p1", b)

SpecHeads == Init /\ [][NextHeads]_vars

\* What a CurrentHead that is not accepted leaves alone: the stores, the
\* remote head, the registry, the requests and the mempool operations queued
\* for every peer, and the actor's position.
HeadNotAcceptedFrame ==
    UNCHANGED <<block_storage, block_meta_storage, operations_received,
                block_received_events, current_head_remote, current_head_local,
                peers, queued_block_headers, queued_block_operations,
                missing_mempool_operations, peer_branch_bootstrapper,
                bootstrap_state, cm_pc, cm_msg>>

InitHeaderMissing ==
    /\ block_storage = {"G"}
    /\ block_meta_storage =
           [b \in Blocks |-> CASE b = "G" -> Meta(TRUE, "H1")
                               [] b = "H1" -> Meta(FALSE, None)
                               [] OTHER -> NoMeta]
    /\ operations_received =
           [b \in Blocks |-> IF b \in {"G", "H1"} THEN validation_passes(b) ELSE {}]
    /\ current_head_local = "G"
    /\ tezos_init_head = "G"
    /\ block_applied_events = <<>>
    /\ InitFeeder
    /\ InitChainManager
    /\ InitConfig(DefaultConfig)

\* The applier thread with its errors and its wake-ups, and a peer that
\* supplies the missing header.
NextHeaderMissing ==
    \/ FeederSteps
    \/ ReceiveFeedChainToProtocol
    \/ Download({"p1"}, NearBlocks)

SpecHeaderMissing == InitHeaderMissing /\ [][NextHeaderMissing]_vars

\* The applier thread finds that the header of the record it is at is not in
\* the header store.
FindsHeaderMissing ==
    /\ f_pc = "get_block"
    /\ current_head_hash \notin block_storage
    /\ f_pc' # "get_block"
    /\ errors' = errors

\* C27 as stated: when the applier thread finds a meta record whose header
\* is missing, the thread ends there and goes on to nothing else.
C27_MissingHeaderAborts ==
    [][FindsHeaderMissing => f_pc' = "exited"]_vars

\* C27, amended: when the applier thread finds a meta record whose header is
\* missing it does not end: it applies nothing, leaves the stores and the
\* record it is at as they are, and parks until it is woken; and it never
\* calls apply_block for a block whose header is missing or whose
\* predecessor is not applied.
C27_MissingHeaderParks ==
    /\ [][FindsHeaderMissing
            => /\ f_pc' = "park"
               /\ UNCHANGED <<block_storage, block_meta_storage,
                              operations_received, current_head_hash,
                              apply_log, block_applied_events,
                              apply_block_run>>]_vars
    /\ [](f_pc = "apply"
            => /\ current_head_hash \in block_storage
               /\ block_meta_storage[predecessor(current_head_hash)].is_applied)

\* The thread is parked at the record of H1, whose header is still missing.
C27_Witness ==
    /\ f_pc = "park"
    /\ current_head_hash = "H1"
    /\ block_meta_storage["H1"].present
    /\ "H1" \notin block_storage

\* The ChainManager with peers that ask for its branch and its head, naming
\* any chain, while headers and operations come in and the applier thread
\* moves the local head.
NextChainId ==
    \/ FeederThread
    \/ Download({"p1"}, NearBlocks)
    \/ PeerRemoved("p1")
    \/ \E kind \in {"CurrentBranch", "CurrentHead"} : \E chain_id \in ChainIds :
          ReceiveGetCurrentMessage("p1", kind, chain_id)

SpecChainId == Init /\ [][NextChainId]_vars

\* The messages of out that are sent to a peer (a warn! goes to the log).
SentToPeers(out) == {m \in out : m[2] # "warn"}

\* C28: a GetCurrentBranch or GetCurrentHead message that names a chain other
\* than the node's is ignored: nothing is sent to the peer, and the registry
\* of peers, their requests, the heads and the stores are left as they were.
C28_OtherChainIgnored ==
    [][\A p \in Peers : \A kind \in {"CurrentBranch", "CurrentHead"} :
          \A chain_id \in ChainIds \ {get_chain_id} :
             ReceiveGetCurrentMessage(p, kind, chain_id)
               => /\ SentToPeers(cm_out') = {}
                  /\ UNCHANGED <<peers, queued_block_headers,
                                 queued_block_operations,
                                 missing_mempool_operations,
                                 peer_branch_bootstrapper, peer_state,
                                 bootstrap_state, current_head_remote,
                                 current_head_local, block_storage,
                                 block_meta_storage, operations_received>>]_vars

\* The node, holding the header of its local head, has just ignored a
\* GetCurrentBranch of p1 that named another chain.
C28_Witness ==
    /\ "p1" \in peers
    /\ current_head_local \in block_storage
    /\ cm_out = {<<"p1", "warn", "unsupported chain_id">>}

\* The blocks that peers advertise, supply and inject in SpecReceived: both
\* children of H1, known to every peer.
ForkBlocks == [p \in Peers |-> {"H2A", "H2B"}]

\* The three ways a header comes in, for the same blocks from two peers:
\* BlockHeader messages answering the requests of an accepted CurrentBranch,
\* accepted CurrentHead messages, and injections.
NextReceived ==
    \/ \E p \in Peers : PeerBootstrapped(p)
    \/ \E p \in Peers : \E head \in ForkBlocks[p] : ReceiveCurrentBranch(p, head)
    \/ HandleAcceptedHead
    \/ \E p \in Peers : \E b \in ForkBlocks[p] : ReceiveBlockHeader(p, b)
    \/ \E p \in Peers : ReceivePeerBranchSynchronizationDone(p)
    \/ \E p \in Peers : \E head \in ForkBlocks[p] : ReceiveCurrentHead(p, head)
    \/ \E b \in {"H2A", "H2B"} : InjectBlock(b, 1, 1, "none")

SpecReceived == Init /\ [][NextReceived]_vars

\* The headers that earlier runs left in the store of Init.
StoredAtStart == {"G", "H1"}

\* C29: BlockReceived is published exactly when a header is ingested for the
\* first time: whatever BlockHeader messages, accepted CurrentHead messages
\* and injections have come from whatever peers, one BlockReceived has been
\* published for each header stored since the start, and none for a header
\* that is not stored or that was stored already.
C29_BlockReceivedOncePerNewHeader ==
    \A b \in Blocks :
       block_received_events[b] = IF b \in block_storage \ StoredAtStart THEN 1 ELSE 0

\* Both forks are stored, each with one BlockReceived, and the injection of
\* one of them, stored already, has just been turned down.
C29_Witness ==
    /\ {"H2A", "H2B"} \subseteq block_storage
    /\ block_received_events["H2A"] = 1
    /\ block_received_events["H2B"] = 1
    /\ \E b \in {"H2A", "H2B"} : cm_out = {<<None, "callback_err", b>>}

\* AllBlockOperationsReceived for b is published by the step.
AllBlockOperationsReceivedPublished(b) ==
    <<None, "AllBlockOperationsReceived", b>> \in cm_out'

\* The operations of b become complete in the step.
OperationsBecomeComplete(b) ==
    /\ operations_received[b] # validation_passes(b)
    /\ operations_received'[b] = validation_passes(b)

\* C30: AllBlockOperationsReceived for a block is published exactly in the
\* step in which the operations of the block go from incomplete to complete:
\* never while a validation pass is missing, and not again when a further
\* bundle for the complete block arrives.
C30_PublishedExactlyOnCompletion ==
    [][\A b \in Blocks :
          AllBlockOperationsReceivedPublished(b) <=> OperationsBecomeComplete(b)]_vars

SpecAutomaton == Init /\ [][NextAutomaton]_vars

\* The automaton's log, and its latest entry.
AutomatonLog == shell_automaton.log

\* The entry i of the log is a NewCurrentHead notification of block b.
IsNotification(i, b) ==
    /\ i \in DOMAIN AutomatonLog
    /\ AutomatonLog[i].event = "NewCurrentHead"
    /\ AutomatonLog[i].block = b

\* C31: a NewCurrentHead notification that carries the current head,
\* is_bootstrapped and best_remote_level is sent for every CurrentHeadUpdate
\* handled while a current head is set, and once when rehydration completes,
\* after BootstrapInit has been dispatched; none is sent otherwise: not by a
\* CurrentHeadUpdate while no current head is set, and not when rehydration
\* has ended in an error.
C31_NewCurrentHeadNotified ==
    /\ [](\A i \in DOMAIN AutomatonLog :
            /\ (AutomatonLog[i].event = "CurrentHeadUpdate")
                  => IF AutomatonLog[i].block = None
                       THEN ~IsNotification(i + 1, AutomatonLog[i + 1].block)
                       ELSE IsNotification(i + 1, AutomatonLog[i].block)
            /\ (AutomatonLog[i].event = "CurrentHeadRehydrated" /\ shell_automaton.queue = <<>>)
                  => /\ i + 2 \in DOMAIN AutomatonLog
                     /\ AutomatonLog[i + 1].event = "BootstrapInit"
                     /\ IsNotification(i + 2, AutomatonLog[i].block)
            /\ (AutomatonLog[i].event = "NewCurrentHead")
                  => /\ AutomatonLog[i].block # None
                     /\ i > 1
                     /\ \/ AutomatonLog[i - 1].event = "CurrentHeadUpdate"
                        \/ /\ AutomatonLog[i - 1].event = "BootstrapInit"
                           /\ i > 2
                           /\ AutomatonLog[i - 2].event = "CurrentHeadRehydrated")
    /\ [](Cardinality({i \in DOMAIN AutomatonLog :
                         AutomatonLog[i].event = "CurrentHeadRehydrated"}) <= 1)
    /\ [](shell_automaton.current_head.state = "RehydrateError"
            => \A i \in DOMAIN AutomatonLog : AutomatonLog[i].event # "NewCurrentHead")
    /\ [][(Len(shell_automaton'.log) > Len(AutomatonLog)
             /\ shell_automaton'.log[Len(shell_automaton'.log)].event = "NewCurrentHead")
            => LET sent == shell_automaton'.log[Len(shell_automaton'.log)]
               IN /\ sent.block = current_head_get(shell_automaton')
                  /\ sent.is_bootstrapped = shell_automaton'.is_bootstrapped
                  /\ sent.best_remote_level = shell_automaton'.best_remote_level]_vars

\* Rehydration has completed with the head H1 and was notified after
\* BootstrapInit; the head was then updated to H2A by a bootstrapped node
\* and notified again.
C31_Witness ==
    /\ Len(AutomatonLog) = 5
    /\ AutomatonLog[1].event = "CurrentHeadRehydrated"
    /\ AutomatonLog[2].event = "BootstrapInit"
    /\ IsNotification(3, "H1")
    /\ AutomatonLog[4].event = "CurrentHeadUpdate"
    /\ IsNotification(5, "H2A")
    /\ AutomatonLog[5].is_bootstrapped
    /\ AutomatonLog[5].best_remote_level = 2

\* The applier thread from a node that holds genesis alone, woken by the
\* FeedChainToProtocol that pre_start schedules every 60 seconds, while one
\* peer supplies blocks.
NextProgress ==
    \/ FeederSteps
    \/ FeederParkSpurious
    \/ ReceiveFeedChainToProtocol
    \/ Download({"p1"}, NearBlocks)

\* The thread is scheduled whenever it can take a step, and the scheduled
\* FeedChainToProtocol is delivered again and again.
SpecProgress ==
    /\ InitGenesis
    /\ [][NextProgress]_vars
    /\ WF_vars(FeederSteps)
    /\ WF_vars(ReceiveFeedChainToProtocol)

\* The cursor is at b, which can be applied: its header is stored, its
\* operations are complete, and it is not applied.
CanApply(b) ==
    /\ current_head_hash = b
    /\ b \in block_storage
    /\ is_complete(b)
    /\ block_meta_storage[b].present
    /\ ~block_meta_storage[b].is_applied

\* The cursor is at b, which is applied and has a successor recorded.
CanAdvance(b) ==
    /\ current_head_hash = b
    /\ block_meta_storage[b].present
    /\ block_meta_storage[b].is_applied
    /\ block_meta_storage[b].successor # None

\* C32: the feeder makes progress whenever progress is possible: when the
\* cursor block's header is stored and its operations are complete, the
\* block is eventually applied; when a successor is recorded for the applied
\* cursor block, the cursor eventually moves to it; and a wake-up is not
\* lost: the unpark token, once set, stays set until a park returns with it.
C32_FeederProgress ==
    /\ \A b \in Blocks : CanApply(b) ~> block_meta_storage[b].is_applied
    /\ \A b \in Blocks :
          CanAdvance(b) ~> (current_head_hash = block_meta_storage[b].successor)
    /\ [][(park_token /\ ~park_token') => (f_pc = "park" /\ f_pc' = "loop")]_vars

\* The thread has read the meta record of H1 and is on its way to park,
\* H1 has become complete meanwhile, and the wake-up is there already.
C32_Witness ==
    /\ current_head_hash = "H1"
    /\ f_pc = "park"
    /\ park_token
    /\ CanApply("H1")

\* The latest message handled had the peer p blacklisted.
JustBlacklisted(p) == \E m \in cm_out : m[1] = p /\ m[2] = "BlacklistPeer"

\* C33: Blacklisted is a terminal state of a peer: the message handled next
\* after the blacklisting of p, when it is a head of p, is not accepted: it
\* does not go on to update the remote head, to be ingested and to have its
\* branch scheduled, and p has nothing requested from it.
C33_BlacklistedIsTerminal ==
    [][\A p \in Peers :
          JustBlacklisted(p)
            => /\ ~(cm_pc' = "update_remote_head" /\ cm_msg'.peer = p)
               /\ queued_block_headers'[p] = {}
               /\ queued_block_operations'[p] = {}]_vars

(***************************************************************************)
(* Shutdown and the operations of the mempool                              *)
(***************************************************************************)

\* What the handlers of this section leave alone: the stores of blocks, the
\* applier thread, the registry of peers and the requests of blocks.
notMempoolRequests == <<block_storage, block_meta_storage, operations_received,
                        feederVars, current_head_local, peers,
                        queued_block_headers, queued_block_operations,
                        current_head_remote, bootstrap_state, cm_pc, cm_msg,
                        block_received_events, config, current_mempool_state,
                        now, peer_state, peer_branch_bootstrapper,
                        post_stop_pc, shell_automaton>>

\* ShellChannelMsg::ShuttingDown: the flag is raised.
ReceiveShuttingDown ==
    /\ cm_pc = "idle"
    /\ shutting_down' = TRUE
    /\ cm_out' = {}
    /\ UNCHANGED <<missing_mempool_operations, queued_mempool_operations,
                   mempool_storage, notMempoolRequests>>

\* PeerState::schedule_missing_operations_for_mempool: every operation a
\* peer is to be asked for is requested from it with GetOperations and
\* awaited from then on.
schedule_missing_operations_for_mempool ==
    /\ queued_mempool_operations' =
          [p \in Peers |-> IF p \in peers
                             THEN queued_mempool_operations[p]
                                    \cup missing_mempool_operations[p]
                             ELSE queued_mempool_operations[p]]
    /\ missing_mempool_operations' =
          [p \in Peers |-> IF p \in peers
                             THEN {}
                             ELSE missing_mempool_operations[p]]
    /\ cm_out' = UNION {{<<p, "GetOperations", op>> :
                            op \in missing_mempool_operations[p]} : p \in peers}

\* Receive<CheckMempoolCompleteness>
ReceiveCheckMempoolCompleteness ==
    /\ cm_pc = "idle"
    /\ IF ~shutting_down
         THEN schedule_missing_operations_for_mempool
         ELSE /\ cm_out' = {}
              /\ UNCHANGED <<missing_mempool_operations,
                             queued_mempool_operations>>
    /\ UNCHANGED <<mempool_storage, shutting_down, notMempoolRequests>>

\* Two peers advertise heads and mempools, one of them supplies headers and
\* operations, and the node is told to shut down at any moment.
NextShutdown ==
    \/ \E p \in Peers : PeerBootstrapped(p)
    \/ \E p \in Peers : ReceivePeerBranchSynchronizationDone(p)
    \/ \E p \in Peers : \E current_mempool \in SUBSET MempoolOperations :
          ReceiveCurrentHeadMessage(p, "H2A", current_mempool)
    \/ HandleAcceptedHead
    \/ \E b \in Blocks : ReceiveBlockHeader("p1", b)
    \/ \E b \in Blocks : \E pass \in validation_passes(b) :
          ReceiveOperationsForBlocks("p1", b, pass)
    \/ ReceiveCheckMempoolCompleteness
    \/ ReceiveShuttingDown

SpecShutdown == Init /\ [][NextShutdown]_vars

\* C34: once ShuttingDown has been received, a BlockHeader or an
\* OperationsForBlocks message stores nothing and publishes nothing, and
\* CheckMempoolCompleteness requests no operation of the mempool.
C34_ResponsesDiscardedAfterShutdown ==
    [][(shutting_down)
         => /\ ((\E b \in Blocks : ReceiveBlockHeader("p1", b))
                  \/ (\E b \in Blocks : \E pass \in validation_passes(b) :
                        ReceiveOperationsForBlocks("p1", b, pass)))
                 => /\ UNCHANGED <<block_storage, block_meta_storage,
                                   operations_received, block_received_events>>
                    /\ cm_out' = {}
            /\ ReceiveCheckMempoolCompleteness
                 => /\ cm_out' = {}
                    /\ UNCHANGED queued_mempool_operations]_vars

(***************************************************************************)
(* CurrentHead messages before the node is bootstrapped                    *)
(***************************************************************************)

\* PeerMessage::CurrentHead of the peer whose PeerState is followed: the
\* instant of the response and the level advertised are recorded before
\* anything else.
ReceiveCurrentHeadWatched(head, current_mempool) ==
    /\ CurrentHeadArms(WatchedPeer, head, current_mempool)
    /\ peer_state' =
          update_current_head_level(
             [peer_state EXCEPT !.current_head_response_last = now],
             level(head))

\* Two peers connect and synchronise their branches; the peer followed and
\* the other one advertise heads while the clock goes on.
NextGate ==
    \/ \E p \in Peers : PeerBootstrapped(p)
    \/ \E p \in Peers : ReceivePeerBranchSynchronizationDone(p)
    \/ \E head \in Blocks : \E current_mempool \in SUBSET MempoolOperations :
          ReceiveCurrentHeadWatched(head, current_mempool)
    \/ ReceiveCurrentHeadMessage("p2", "H2A", {})
    \/ HandleAcceptedHead
    \/ Tick

SpecGate == Init /\ [][NextGate]_vars

\* The fields of a PeerState that record the CurrentHead messages of the
\* peer: the instant of the latest, the level advertised and the instant at
\* which that level was recorded.
CurrentHeadRecord ==
    {"current_head_response_last", "current_head_level",
     "current_head_update_last"}

\* C35: while the node is not bootstrapped, a CurrentHead message changes
\* nothing but the record of CurrentHead messages in the sender's PeerState:
\* no result of can_accept_head is acted on, the remote head, the stores, the
\* requests of blocks and of mempool operations and the registry of peers are
\* as before, and nothing is sent or published.
C35_CurrentHeadBeforeBootstrapped ==
    [][\A head \in Blocks : \A current_mempool \in SUBSET MempoolOperations :
          (~is_bootstrapped /\ ReceiveCurrentHeadWatched(head, current_mempool))
            => /\ cm_out' = {}
               /\ UNCHANGED <<block_storage, block_meta_storage,
                              operations_received, block_received_events,
                              current_head_remote, current_head_local, peers,
                              queued_block_headers, queued_block_operations,
                              missing_mempool_operations,
                              queued_mempool_operations,
                              peer_branch_bootstrapper, bootstrap_state,
                              cm_pc, cm_msg>>
               /\ \A f \in (DOMAIN peer_state) \ CurrentHeadRecord :
                     peer_state'[f] = peer_state[f]
               /\ peer_state'.current_head_response_last = now]_vars

\* A node that is not bootstrapped has recorded, some time after the start,
\* the level of the CurrentHead H2A of the peer followed, and has no remote
\* head and no request for that peer.
C35_Witness ==
    /\ ~is_bootstrapped
    /\ WatchedPeer \in peers
    /\ peer_state.current_head_level = SomeLevel(level("H2A"))
    /\ peer_state.current_head_response_last > 0
    /\ current_head_remote = None
    /\ queued_block_headers[WatchedPeer] = {}

(***************************************************************************)
(* The peers an advertisement reaches, under SpecMempool.                  *)
(***************************************************************************)

\* The messages of out told to the peer q.
ToldTo(out, q) == {m \in out : m[1] = q}

\* C36: an advertisement of a new mempool tells a CurrentHead to the peers
\* whose message carries a mempool, one message each, and nothing to a peer
\* whose message would carry none, because the mempool advertised is empty,
\* p2p_disable_mempool is set or the peer has its mempool disabled; an
\* advertisement of a new current head tells every connected peer exactly
\* one CurrentHead.
C36_AdvertisementRecipients ==
    [][ /\ \A b \in Blocks, mempool \in Mempools :
             (AdvertiseToP2pNewMempool(b, mempool) /\ b \in block_storage)
                => \A q \in Peers :
                      IF /\ q \in peers
                         /\ mempool # {}
                         /\ ~config.p2p_disable_mempool
                         /\ mempool_enabled(q)
                        THEN ToldTo(cm_out', q)
                               = {<<q, "CurrentHead", b, mempool>>}
                        ELSE ToldTo(cm_out', q) = {}
        /\ \A b \in Blocks :
             (AdvertiseToP2pNewCurrentHead(b) /\ b \in block_storage)
                => \A q \in Peers :
                      IF q \in peers
                        THEN /\ Cardinality(ToldTo(cm_out', q)) = 1
                             /\ \A m \in ToldTo(cm_out', q) : m[2] = "CurrentHead"
                        ELSE ToldTo(cm_out', q) = {}
      ]_vars

\* With both peers connected and the mempool allowed by the configuration,
\* an advertisement of a mempool holding an operation has told p1 its
\* CurrentHead and has told p2, whose mempool is disabled, nothing.
C36_Witness ==
    /\ peers = Peers
    /\ ~config.p2p_disable_mempool
    /\ cm_out = {<<"p1", "CurrentHead", "H1", {"op"}>>}

(***************************************************************************)
(* Storage responses during rehydration, under SpecAutomaton.              *)
(***************************************************************************)

\* The outcomes of the rehydration.
RehydrateOutcomes == {"CurrentHeadRehydrateSuccess", "CurrentHeadRehydrateError"}

\* The automaton au is about to handle an outcome of the rehydration.
OutcomeDispatched(au) ==
    \E i \in DOMAIN au.queue : au.queue[i].type \in RehydrateOutcomes

\* C37: a storage response makes the current head's effects dispatch
\* CurrentHeadRehydrateSuccess or CurrentHeadRehydrateError only if the
\* current-head state is RehydratePending and the response carries the
\* request id that state holds, the one CurrentHeadRehydrateInit read; a
\* response with another id or none, or in another state, dispatches neither
\* and leaves the current head as it is.
C37_OnlyMatchingResponseActedOn ==
    [][\A a \in StorageResponses :
          AutomatonDispatch(a)
            => /\ OutcomeDispatched(shell_automaton')
                    => /\ shell_automaton.current_head.state = "RehydratePending"
                       /\ a.req_id.some
                       /\ a.req_id.id = shell_automaton.current_head.storage_req_id
                       /\ a.result \in {"CurrentHeadGetSuccess", "CurrentHeadGetError"}
               /\ shell_automaton'.current_head = shell_automaton.current_head
      ]_vars

\* Rehydration waits for the response to the request 1, the request 0 being
\* another requestor's, and the response with the id 1 has just made the
\* effects dispatch CurrentHeadRehydrateSuccess.
C37_Witness ==
    /\ shell_automaton.current_head.state = "RehydratePending"
    /\ shell_automaton.current_head.storage_req_id = 1
    /\ shell_automaton.next_req_id = 2
    /\ shell_automaton.queue # <<>>
    /\ Head(shell_automaton.queue).type = "CurrentHeadRehydrateSuccess"

(***************************************************************************)
(* Messages of peers that are not in the registry                          *)
(***************************************************************************)

\* The peer messages followed here, each naming a block.
PeerMessageKinds == {"CurrentBranch", "CurrentHead", "BlockHeader",
                     "OperationsForBlocks"}

\* The arm of a peer message of the kind given, for a registered peer.
PeerMessageArm(p, kind, b) ==
    CASE kind = "CurrentBranch" -> ReceiveCurrentBranch(p, b)
      [] kind = "CurrentHead" -> ReceiveCurrentHead(p, b)
      [] kind = "BlockHeader" -> ReceiveBlockHeader(p, b)
      [] kind = "OperationsForBlocks" ->
           \E pass \in validation_passes(b) : ReceiveOperationsForBlocks(p, b, pass)

\* A handler that registers the sender of a message it does not know, as
\* PeerBootstrapped does.
PeerMessageReceivedRegistering(p, kind, b) ==
    IF p \in peers THEN PeerMessageArm(p, kind, b) ELSE PeerBootstrapped(p)

\* NetworkChannelMsg::PeerMessageReceived: the PeerState of the sender is
\* looked up; without one the message is logged and dropped.
PeerMessageReceived(p, kind, b) ==
    IF p \in peers
      THEN PeerMessageArm(p, kind, b)
      ELSE /\ cm_pc = "idle"
           /\ cm_out' = {<<p, "warn", "Received message from non-existing peer actor">>}
           /\ UNCHANGED <<block_storage, block_meta_storage, operations_received,
                          current_head_remote, peers, queued_block_headers,
                          queued_block_operations, bootstrap_state, cm_pc,
                          cm_msg, block_received_events, notChainManager>>

\* Peers connect and are removed, and messages arrive from every peer,
\* registered or not.
NextUnknownPeer ==
    \/ \E p \in Peers : PeerBootstrapped(p)
    \/ \E p \in Peers : PeerRemoved(p)
    \/ \E p \in Peers : \E kind \in PeerMessageKinds : \E b \in {"H1", "H2A"} :
          PeerMessageReceived(p, kind, b)
    \/ HandleAcceptedHead

SpecUnknownPeer == Init /\ [][NextUnknownPeer]_vars

\* C38: a message of a peer that has no entry in the registry, because the
\* peer never connected or was removed, creates no entry and changes neither
\* the remote head, the stores, the requests nor the bootstrap state, and
\* nothing is told to a peer or published: the handler writes to the log
\* only.
C38_UnknownPeerIgnored ==
    [][\A p \in Peers : \A kind \in PeerMessageKinds : \A b \in {"H1", "H2A"} :
          (p \notin peers /\ PeerMessageReceived(p, kind, b))
            => /\ SentToPeers(cm_out') = {}
               /\ UNCHANGED <<peers, current_head_remote, current_head_local,
                              block_storage, block_meta_storage,
                              operations_received, block_received_events,
                              queued_block_headers, queued_block_operations,
                              missing_mempool_operations,
                              queued_mempool_operations, mempool_storage,
                              peer_branch_bootstrapper, bootstrap_state,
                              cm_pc, cm_msg>>
      ]_vars

\* Of the two peers only p2 is in the registry, the header of H2A has been
\* stored, and a message of p1 has just been logged and dropped.
C38_Witness ==
    /\ peers = {"p2"}
    /\ "H2A" \in block_storage
    /\ cm_out = {<<"p1", "warn", "Received message from non-existing peer actor">>}

(***************************************************************************)
(* Operation messages                                                      *)
(***************************************************************************)

\* What becomes of an operation received: prevalidate_operation fails with
\* UnknownBranch or BranchNotAppliedYet, fails otherwise, gives a result
\* that can_accept_operation_from_p2p refuses or accepts, and for an
\* accepted operation mempool_storage.put fails or not.
PrevalidationResults ==
    {"branch_unknown", "error", "refused", "accepted_put_error", "accepted"}

\* MempoolChannelMsg: MempoolOperationReceived of the operation op.
MempoolOperationReceived(op) == <<None, "MempoolOperationReceived", op>>

\* An Operation handler that takes an operation whether it was requested
\* from the peer or not.
ReceiveOperationUnrequested(p, op, result) ==
    /\ cm_pc = "idle"
    /\ p \in peers
    /\ queued_mempool_operations' =
          [queued_mempool_operations EXCEPT ![p] = @ \ {op}]
    /\ IF result = "accepted"
         THEN /\ mempool_storage' = mempool_storage \cup {op}
              /\ cm_out' = {MempoolOperationReceived(op)}
         ELSE /\ cm_out' = {}
              /\ UNCHANGED mempool_storage
    /\ UNCHANGED <<missing_mempool_operations, shutting_down,
                   notMempoolRequests>>

\* PeerMessage::Operation.  The CheckMempoolCompleteness the handler tells
\* the actor itself is handled by ReceiveCheckMempoolCompleteness, at any
\* later moment.
ReceiveOperation(p, op, result) ==
    /\ cm_pc = "idle"
    /\ p \in peers
    /\ IF op \in queued_mempool_operations[p]
         THEN /\ queued_mempool_operations' =
                    [queued_mempool_operations EXCEPT ![p] = @ \ {op}]
              /\ IF result = "accepted"
                   THEN /\ mempool_storage' = mempool_storage \cup {op}
                        /\ cm_out' = {MempoolOperationReceived(op)}
                   ELSE /\ cm_out' = {}
                        /\ UNCHANGED mempool_storage
         ELSE /\ cm_out' = {}
              /\ UNCHANGED <<queued_mempool_operations, mempool_storage>>
    /\ UNCHANGED <<missing_mempool_operations, shutting_down,
                   notMempoolRequests>>

\* Two peers of a bootstrapped node advertise heads with mempools, the
\* operations are requested, and they arrive, requested or not, with every
\* outcome of the prevalidation.
NextOperations ==
    \/ \E p \in Peers : PeerBootstrapped(p)
    \/ \E p \in Peers : ReceivePeerBranchSynchronizationDone(p)
    \/ \E p \in Peers : \E current_mempool \in SUBSET MempoolOperations :
          ReceiveCurrentHeadMessage(p, "H2A", current_mempool)
    \/ HandleAcceptedHead
    \/ ReceiveCheckMempoolCompleteness
    \/ \E p \in Peers : \E op \in MempoolOperations :
          \E result \in PrevalidationResults : ReceiveOperation(p, op, result)

SpecOperations == Init /\ [][NextOperations]_vars

\* C39: an Operation message puts its operation into the mempool storage
\* and publishes MempoolOperationReceived only if the operation was awaited
\* from the sender and the prevalidation accepts it, and never publishes
\* without the operation being stored; an operation not awaited from the
\* sender changes nothing; an operation awaited is no longer awaited after
\* the message, whatever the prevalidation says.
C39_OperationStoredIfQueuedAndAccepted ==
    [][\A p \in Peers : \A op \in MempoolOperations :
          \A result \in PrevalidationResults :
             ReceiveOperation(p, op, result)
               => /\ (MempoolOperationReceived(op) \in cm_out'
                        \/ mempool_storage' # mempool_storage)
                       => /\ op \in queued_mempool_operations[p]
                          /\ mempool_storage' = mempool_storage \cup {op}
                          /\ \E accepted \in {"accepted"} :
                                ReceiveOperation(p, op, accepted)
                  /\ MempoolOperationReceived(op) \in cm_out'
                       => op \in mempool_storage'
                  /\ op \notin queued_mempool_operations[p]
                       => /\ cm_out' = {}
                          /\ UNCHANGED <<queued_mempool_operations,
                                         missing_mempool_operations,
                                         mempool_storage, peers,
                                         block_storage, block_meta_storage,
                                         operations_received,
                                         current_head_remote, cm_pc, cm_msg>>
                  /\ queued_mempool_operations' =
                        [queued_mempool_operations EXCEPT ![p] = @ \ {op}]
      ]_vars

\* The operation op1 that p1 advertised and was asked for has arrived and
\* is stored and announced, while op2 is still awaited from p1.
C39_Witness ==
    /\ "op1" \in mempool_storage
    /\ cm_out = {MempoolOperationReceived("op1")}
    /\ queued_mempool_operations["p1"] = {"op2"}

(***************************************************************************)
(* Failed injections, under SpecInject.                                    *)
(***************************************************************************)

\* The request of an injection lacks its operations, its operation paths or
\* the path of a validation pass, or the storing of a pass fails.
InjectionIncomplete(n_ops, n_paths, failure) ==
    \/ n_ops < 0
    \/ n_paths < 0
    \/ n_paths < n_ops
    \/ store_pass_fails(n_ops, n_paths, failure)

\* C40: when a new block is injected whose operations are not complete and
\* the request lacks the operations, the operation paths or the path of a
\* validation pass, or the storing of a pass fails, the caller's callback is
\* given an error and the application of the block is not asked for; when
\* the application is asked for, the callback goes with that request and is
\* given no error by the handler.
C40_FailedInjectionNeverApplied ==
    [][ \A b \in Injected, n_ops \in InjectedLengths, n_paths \in InjectedLengths :
        \A failure \in InjectionFailures \ {"store_header"} :
          (InjectBlock(b, n_ops, n_paths, failure)
             /\ b \notin block_storage /\ ~is_complete(b))
            => /\ InjectionIncomplete(n_ops, n_paths, failure)
                    => /\ <<None, "callback_err", b>> \in cm_out'
                       /\ <<None, "try_apply_block", b>> \notin cm_out'
               /\ <<None, "try_apply_block", b>> \in cm_out'
                    => /\ <<None, "callback_err", b>> \notin cm_out'
                       /\ ~InjectionIncomplete(n_ops, n_paths, failure)
               /\ <<None, "callback_err", b>> \in cm_out'
                    \/ <<None, "try_apply_block", b>> \in cm_out'
      ]_vars

\* H2B, which no peer supplies, was injected and its header stored; none of
\* its operations is stored, the callback has been given an error and the
\* application of H2B has not been asked for.
C40_Witness ==
    /\ "H2B" \in block_storage
    /\ block_received_events["H2B"] = 1
    /\ operations_received["H2B"] = {}
    /\ cm_out = {<<None, "callback_err", "H2B">>}

====
